---------------------------- MODULE Spec2Model ----------------------------
(***************************************************************************)
(* Publication aggregation engine of the Journal Club Publication Watcher. *)
(*                                                                         *)
(*   Spec       run_user_search (app/services/search_service.py) driving   *)
(*              lookup_pubmed / PubMedClient, lookup_crossref and          *)
(*              process_papers, one upstream call per step                 *)
(*   SpecFair   Spec with weak fairness of the run's steps                 *)
(*   SpecFetch  PubMedClient.fetch_paper_details called on its own, for    *)
(*              every value of retry_attempts                              *)
(*   SpecDedup  remove_duplicate_papers applied to bounded component lists *)
(*   SpecCrossref  the loop of lookup_crossref over the ORCIDs, with the   *)
(*              answer of every query logged                               *)
(*   SpecRuns   several runs of run_user_search interleaved in one process *)
(*   SpecDate   parse_api_date applied to bounded raw values and tags      *)
(*   SpecFrequency  the date range functions on bounded frequencies        *)
(*   SpecDelays   the request loops of both clients with their sleeps      *)
(*   SpecExtract  the title and link extractors on bounded raw values      *)
(*   SpecProcess  the DOI deduplication of lookup_crossref and then        *)
(*              process_papers, statement by statement, on raw records     *)
(***************************************************************************)
EXTENDS Integers, Sequences, FiniteSets, TLC

\* ------------------------------------------------------------------------
\* Bounds of the model
\* ------------------------------------------------------------------------
\* active keywords / tracked authors of a configuration, and both together
MaxKeywords == 2
MaxAuthors == 2
MaxRows == 3
\* PMIDs the keyword searches of one run return in all (and the length of
\* the PMID list of SpecFetch); PMIDs one author search returns
MaxIds == 3
MaxAuthorIds == 1
\* largest retry_attempts handed to fetch_paper_details in SpecFetch
MaxRetryAttempts == 3
\* longest component list handed to remove_duplicate_papers in SpecDedup
MaxLen == 3
\* raw records (keyword, PubMed author and CrossRef together) of SpecProcess
MaxRaw == 2
\* runs of run_user_search in one server process in SpecRuns
MaxRuns == 2
\* requests one run of SpecRuns sends to each source
MaxCalls == 2
\* longest raw date string, and longest list of date parts, in SpecDate
MaxDateLen == 5
MaxParts == 3
\* largest small number of a frequency string in SpecFrequency
MaxNumber == 3
\* longest "title" list and longest ELocationID list in SpecExtract
MaxTitles == 2
MaxLocs == 2

\* ------------------------------------------------------------------------
\* Program constants
\* ------------------------------------------------------------------------
DEFAULT_RETRY_ATTEMPTS == 2
API_DELAY == 1
RATE_LIMIT_DELAY == 1

\* ------------------------------------------------------------------------
\* Strings as sequences of characters: str.strip() and str.lower()
\* ------------------------------------------------------------------------
Chars == {"a", "A", " "}

LowerChar(c) ==
    IF c = "A" THEN "a"
    ELSE IF c = "No title available" THEN "no title available"
    ELSE c

Lower(s) == [k \in 1..Len(s) |-> LowerChar(s[k])]

RECURSIVE LStrip(_)
LStrip(s) == IF s # <<>> /\ Head(s) = " " THEN LStrip(Tail(s)) ELSE s

RECURSIVE RStrip(_)
RStrip(s) ==
    IF s # <<>> /\ s[Len(s)] = " " THEN RStrip(SubSeq(s, 1, Len(s) - 1)) ELSE s

Strip(s) == RStrip(LStrip(s))

\* component.get("Title", "").strip().lower()
TitleKey(component) ==
    Lower(Strip(IF component.has_Title THEN component.Title ELSE <<>>))

\* ------------------------------------------------------------------------
\* core/paper_processor.py : remove_duplicate_papers
\* ------------------------------------------------------------------------
\* the loop body: one component against the titles seen so far
DedupKeepsSeenTwice(title, seen_titles) == title # <<>>

DedupKeeps(title, seen_titles) == title # <<>> /\ title \notin seen_titles

\* unique_components.insert(0, component) in place of append
RECURSIVE DedupLoopPrepending(_, _, _)
DedupLoopPrepending(components, seen_titles, unique_components) ==
    IF components = <<>> THEN unique_components
    ELSE LET component == Head(components)
             title == TitleKey(component)
         IN IF DedupKeeps(title, seen_titles)
            THEN DedupLoopPrepending(Tail(components), seen_titles \cup {title},
                                     <<component>> \o unique_components)
            ELSE DedupLoopPrepending(Tail(components), seen_titles,
                                     unique_components)

RECURSIVE DedupLoop(_, _, _)
DedupLoop(components, seen_titles, unique_components) ==
    IF components = <<>> THEN unique_components
    ELSE LET component == Head(components)
             title == TitleKey(component)
         IN IF DedupKeeps(title, seen_titles)
            THEN DedupLoop(Tail(components), seen_titles \cup {title},
                           Append(unique_components, component))
            ELSE DedupLoop(Tail(components), seen_titles, unique_components)

remove_duplicate_papers(components) == DedupLoop(components, {}, <<>>)


\* ------------------------------------------------------------------------
\* Upstream data: what PubMed and CrossRef answer
\* ------------------------------------------------------------------------
\* one article of the mapping Entrez.read returns for efetch of a PMID; the
\* Journal element of the third kind of article is not a mapping
Article(pmid) ==
    [pmid |-> pmid,
     has_Article |-> TRUE,
     has_ArticleTitle |-> TRUE,
     ArticleTitle |-> IF pmid % 3 = 1 THEN <<"A">>
                      ELSE IF pmid % 3 = 2 THEN <<"a", " ">>
                      ELSE <<"a", "a">>,
     journal_is_mapping |-> pmid % 3 # 0]

\* one item of the "items" list CrossRef answers for an ORCID
Item(orcid) ==
    [orcid |-> orcid,
     has_DOI |-> orcid % 4 # 0,
     doi_is_str |-> orcid % 4 # 3,
     DOI |-> IF orcid % 4 = 1 THEN <<"a">>
             ELSE IF orcid % 4 = 2 THEN <<"A">>
             ELSE <<>>,
     has_title |-> orcid % 4 # 0,
     title |-> IF orcid % 4 = 1 THEN <<"a">>
               ELSE IF orcid % 4 = 2 THEN <<"a", "a">>
               ELSE IF orcid % 4 = 3 THEN <<" ", "A">>
               ELSE <<>>]

\* the answers of one Entrez.efetch call
EfetchResponses == {"ok", "http429", "http500", "http404", "error"}

HTTPErrors == {"http429", "http500", "http404"}

\* the answers of one Entrez.esearch call: a failure, or a list of up to max IDs
SearchResponses(max) ==
    {[ok |-> FALSE, n |-> 0]} \cup {[ok |-> TRUE, n |-> k] : k \in 0..max}

\* a keyword's search, when the earlier keywords of the run were given
\* already IDs
KeywordSearchResponses(already) == SearchResponses(MaxIds - already)

AuthorSearchResponses == SearchResponses(MaxAuthorIds)

\* the answers of one CrossRef works request
CrossrefResponses == {"request_exception", "error", "empty", "items"}

\* the active rows of tracked_authors: row k has ORCID k, its name is
\* optional (0: no name)
AuthorRows(n) == {a \in [1..n -> [name : 0..n, orcid : 1..n]] :
                     \A k \in 1..n : a[k].orcid = k /\ a[k].name \in {0, k}}

\* ------------------------------------------------------------------------
\* core/date_utils.py : parse_api_date
\* A raw value is None, a string (sequence of characters), a mapping with
\* the key 'date-parts' (outer: the list of lists; a part is an integer or
\* None), a mapping with optional 'Year', 'Month', 'Day' strings, or a list
\* of such mappings.
\* ------------------------------------------------------------------------
Digit == {"0", "1", "2", "3", "4", "5", "6", "7", "8", "9"}

DigitChar(d) == <<"0", "1", "2", "3", "4", "5", "6", "7", "8", "9">>[d + 1]

\* str(n) of an integer n >= 0
RECURSIVE IntStr(_)
IntStr(n) ==
    IF n < 10 THEN <<DigitChar(n)>>
    ELSE IntStr(n \div 10) \o <<DigitChar(n % 10)>>

\* str.zfill(width)
RECURSIVE ZFill(_, _)
ZFill(s, width) == IF Len(s) >= width THEN s ELSE ZFill(<<"0">> \o s, width)

\* the format specs 04d and 02d on an integer n >= 0
FormatD(n, width) == ZFill(IntStr(n), width)

\* str.replace('-', '/')
ReplaceHyphens(s) == [k \in 1..Len(s) |-> IF s[k] = "-" THEN "/" ELSE s[k]]

Absent == [has |-> FALSE, v |-> <<>>]

Present(s) == [has |-> TRUE, v |-> s]

NonePart == [int |-> FALSE, v |-> 0]

IntPart(n) == [int |-> TRUE, v |-> n]

NoneValue == [kind |-> "None"]

\* the result strings that are no date
NoDateAvailable == <<"No date available">>

InvalidDateFormat == <<"Invalid date format: ">>

\* not date_data
Falsy(d) ==
    \/ d.kind = "None"
    \/ d.kind = "str" /\ d.s = <<>>
    \/ d.kind = "dict" /\ ~d.Year.has /\ ~d.Month.has /\ ~d.Day.has
    \/ d.kind = "list" /\ d.items = <<>>

\* str() of a list of parts, without the brackets
RECURSIVE PartsStr(_)
PartsStr(parts) ==
    IF parts = <<>> THEN <<>>
    ELSE (IF Head(parts).int THEN IntStr(Head(parts).v) ELSE <<"None">>)
         \o (IF Len(parts) > 1 THEN <<", ">> ELSE <<>>)
         \o PartsStr(Tail(parts))

\* str() of a mapping with its keys in the order Year, Month, Day
DictStr(d) ==
    <<"{">>
    \o (IF d.Year.has THEN <<"'Year': '">> \o d.Year.v \o <<"', ">> ELSE <<>>)
    \o (IF d.Month.has THEN <<"'Month': '">> \o d.Month.v \o <<"', ">> ELSE <<>>)
    \o (IF d.Day.has THEN <<"'Day': '">> \o d.Day.v \o <<"'">> ELSE <<>>)
    \o <<"}">>

\* str(date_data)
StrForm(d) ==
    IF d.kind = "str" THEN d.s
    ELSE IF d.kind = "date_parts"
    THEN <<"{'date-parts': [">>
         \o (IF d.outer = <<>> THEN <<>>
             ELSE <<"[">> \o PartsStr(d.outer[1]) \o <<"]">>)
         \o <<"]}">>
    ELSE IF d.kind = "dict" THEN DictStr(d)
    ELSE IF d.kind = "list"
    THEN <<"[">> \o (IF d.items = <<>> THEN <<>> ELSE DictStr(d.items[1]))
         \o <<"]">>
    ELSE <<"None">>

\* where re.search(r'(\d{4})', s) matches first (0: nowhere)
YearMatch(s) ==
    LET S == {k \in 1..(Len(s) - 3) : \A n \in k..(k + 3) : s[n] \in Digit}
    IN IF S = {} THEN 0 ELSE CHOOSE k \in S : \A m \in S : k <= m

\* lines 243-246 and 251: the year of the string form, or the diagnostic
Fallback(d) ==
    LET date_str == StrForm(d)
        k == YearMatch(date_str)
    IN IF k = 0 THEN InvalidDateFormat
       ELSE SubSeq(date_str, k, k + 3) \o <<"/", "0", "1", "/", "0", "1">>

\* lines 211-221: "fall" when no branch returns, "raise" for the
\* IndexError of [0] on an empty list and the TypeError of the format
CrossrefDateParts(d) ==
    IF d.outer = <<>> THEN [to |-> "raise", v |-> <<>>]
    ELSE LET date_parts == d.outer[1]
             n == IF Len(date_parts) >= 3 THEN 3 ELSE Len(date_parts)
         IN IF n = 0 THEN [to |-> "fall", v |-> <<>>]
            ELSE IF \E k \in 1..n : ~date_parts[k].int
            THEN [to |-> "raise", v |-> <<>>]
            ELSE [to |-> "return",
                  v |-> FormatD(date_parts[1].v, 4) \o <<"/">>
                        \o (IF n >= 2 THEN FormatD(date_parts[2].v, 2)
                            ELSE <<"0", "1">>)
                        \o <<"/">>
                        \o (IF n >= 3 THEN FormatD(date_parts[3].v, 2)
                            ELSE <<"0", "1">>)]

\* lines 232-236
PubmedDict(d) ==
    LET year == IF d.kind = "dict" /\ d.Year.has THEN d.Year.v ELSE <<>>
        month == IF d.kind = "dict" /\ d.Month.has THEN d.Month.v ELSE <<"0", "1">>
        day == IF d.kind = "dict" /\ d.Day.has THEN d.Day.v ELSE <<"0", "1">>
    IN IF year # <<>>
       THEN [to |-> "return",
             v |-> year \o <<"/">> \o ZFill(month, 2) \o <<"/">> \o ZFill(day, 2)]
       ELSE [to |-> "fall", v |-> <<>>]

RECURSIVE parse_api_date(_, _)
parse_api_date(date_data, source) ==
    IF Falsy(date_data) THEN NoDateAvailable
    ELSE LET branch ==
                 IF source = "crossref"
                 THEN IF date_data.kind = "date_parts"
                      THEN CrossrefDateParts(date_data)
                      ELSE IF date_data.kind = "str"
                                /\ \E k \in 1..Len(date_data.s) : date_data.s[k] = "-"
                      THEN [to |-> "return", v |-> ReplaceHyphens(date_data.s)]
                      ELSE [to |-> "fall", v |-> <<>>]
                 ELSE IF source = "pubmed"
                 THEN IF date_data.kind \in {"dict", "date_parts"}
                      THEN PubmedDict(date_data)
                      ELSE IF date_data.kind = "list"
                      THEN [to |-> "return",
                            v |-> parse_api_date(date_data.items[1], source)]
                      ELSE [to |-> "fall", v |-> <<>>]
                 ELSE [to |-> "fall", v |-> <<>>]
         IN IF branch.to = "return" THEN branch.v
            ELSE IF branch.to = "raise" THEN InvalidDateFormat
            ELSE Fallback(date_data)

\* the raw values of SpecDate
DateChars == {"1", "9", "-", "x"}

DateStrings == UNION {[1..n -> DateChars] : n \in 0..MaxDateLen}

PartValues == {IntPart(7), IntPart(12), IntPart(1987), NonePart}

DateParts == UNION {[1..n -> PartValues] : n \in 0..MaxParts}

DateDicts ==
    {[kind |-> "dict", Year |-> y, Month |-> m, Day |-> dd]
        : y \in {Absent, Present(<<>>), Present(<<"1", "9", "8", "7">>),
                 Present(<<"8", "7">>)},
          m \in {Absent, Present(<<"3">>), Present(<<"1", "2">>),
                 Present(<<"M", "a", "r">>)},
          dd \in {Absent, Present(<<"9">>), Present(<<"2", "8">>)}}

DateValues ==
    {NoneValue}
    \cup {[kind |-> "str", s |-> s] : s \in DateStrings}
    \cup {[kind |-> "date_parts", outer |-> <<>>]}
    \cup {[kind |-> "date_parts", outer |-> <<p>>] : p \in DateParts}
    \cup DateDicts
    \cup {[kind |-> "list", items |-> <<>>]}
    \cup {[kind |-> "list", items |-> <<d>>] : d \in DateDicts}

SourceTags == {"crossref", "pubmed", "unknown"}

\* ------------------------------------------------------------------------
\* core/date_utils.py : parse_lookup_frequency, calculate_date_range
\* app/services/search_service.py : calculate_date_range_from_frequency
\* A date is its proleptic Gregorian ordinal (0001-01-01 is day 1), as
\* datetime keeps it; strftime("%Y/%m/%d") gives <<year, month, day>>.
\* ------------------------------------------------------------------------
\* str.lower() on the letters a unit is written with
LowerUnitChar(c) ==
    IF c = "D" THEN "d" ELSE IF c = "W" THEN "w" ELSE IF c = "M" THEN "m"
    ELSE IF c = "Y" THEN "y" ELSE c

LowerUnit(s) == [k \in 1..Len(s) |-> LowerUnitChar(s[k])]

\* \w of the regular expression, on the characters used here
WordChars ==
    Digit \cup {"d", "a", "y", "s", "w", "e", "k", "m", "o", "n", "t", "h",
                "r", "u"}

\* length of the longest prefix of s made of characters of set
RECURSIVE PrefixLen(_, _)
PrefixLen(s, set) ==
    IF s # <<>> /\ Head(s) \in set THEN 1 + PrefixLen(Tail(s), set) ELSE 0

\* int() of a string of digits
RECURSIVE DigitsInt(_)
DigitsInt(s) ==
    IF s = <<>> THEN 0
    ELSE 10 * DigitsInt(SubSeq(s, 1, Len(s) - 1))
         + (CHOOSE d \in 0..9 : DigitChar(d) = s[Len(s)])

Drop(s, n) == SubSeq(s, n + 1, Len(s))

\* re.match(r"(\d+)\s*(\w+)", s): the two groups, with the backtracking
\* of \d+ when no word character follows the digits and the blanks
FrequencyMatch(s) ==
    LET nd == PrefixLen(s, Digit)
        afterDigits == Drop(s, nd)
        afterBlanks == Drop(afterDigits, PrefixLen(afterDigits, {" "}))
        nw == PrefixLen(afterBlanks, WordChars)
    IN IF nd = 0 THEN [ok |-> FALSE, number |-> <<>>, unit |-> <<>>]
       ELSE IF nw > 0
       THEN [ok |-> TRUE, number |-> SubSeq(s, 1, nd),
             unit |-> SubSeq(afterBlanks, 1, nw)]
       ELSE IF nd >= 2
       THEN [ok |-> TRUE, number |-> SubSeq(s, 1, nd - 1), unit |-> <<s[nd]>>]
       ELSE [ok |-> FALSE, number |-> <<>>, unit |-> <<>>]

\* str.startswith
StartsWith(s, prefix) ==
    Len(s) >= Len(prefix) /\ SubSeq(s, 1, Len(prefix)) = prefix

\* a month lasts 31 days
UnitDays31(unit) ==
    IF StartsWith(unit, <<"d", "a", "y">>) THEN 1
    ELSE IF StartsWith(unit, <<"w", "e", "e", "k">>) THEN 7
    ELSE IF StartsWith(unit, <<"m", "o", "n", "t", "h">>) THEN 31
    ELSE IF StartsWith(unit, <<"y", "e", "a", "r">>) THEN 365
    ELSE 0

\* the days of one unit (0: the unit is not supported)
UnitDays(unit) ==
    IF StartsWith(unit, <<"d", "a", "y">>) THEN 1
    ELSE IF StartsWith(unit, <<"w", "e", "e", "k">>) THEN 7
    ELSE IF StartsWith(unit, <<"m", "o", "n", "t", "h">>) THEN 30
    ELSE IF StartsWith(unit, <<"y", "e", "a", "r">>) THEN 365
    ELSE 0

\* parse_lookup_frequency: the timedelta in days, or the exception raised
parse_lookup_frequency(freq_str) ==
    IF Strip(freq_str) = <<>> THEN [raises |-> "ValueError", days |-> 0]
    ELSE LET match == FrequencyMatch(LowerUnit(Strip(freq_str)))
         IN IF ~match.ok THEN [raises |-> "ValueError", days |-> 0]
            ELSE LET days == DigitsInt(match.number) * UnitDays(match.unit)
                 IN IF UnitDays(match.unit) = 0
                    THEN [raises |-> "ValueError", days |-> 0]
                    ELSE IF days > 999999999
                    THEN [raises |-> "OverflowError", days |-> 0]
                    ELSE [raises |-> "-", days |-> days]

\* date.fromordinal(n): <<year, month, day>>
Civil(ordinal) ==
    LET z == ordinal + 305
        era == z \div 146097
        doe == z - era * 146097
        yoe == (doe - doe \div 1460 + doe \div 36524 - doe \div 146096) \div 365
        doy == doe - (365 * yoe + yoe \div 4 - yoe \div 100)
        mp == (5 * doy + 2) \div 153
        d == doy - (153 * mp + 2) \div 5 + 1
        m == IF mp < 10 THEN mp + 3 ELSE mp - 9
        y == yoe + era * 400 + (IF m <= 2 THEN 1 ELSE 0)
    IN <<y, m, d>>

\* the default of end_date, '3000/01/01'
END_DATE_DEFAULT == <<3000, 1, 1>>

\* calculate_date_range(frequency) with the default end_date
calculate_date_range(frequency, now) ==
    LET delta == parse_lookup_frequency(frequency)
    IN IF delta.raises # "-"
       THEN [raises |-> delta.raises, start |-> <<>>, end |-> <<>>]
       ELSE IF now - delta.days < 1
       THEN [raises |-> "OverflowError", start |-> <<>>, end |-> <<>>]
       ELSE [raises |-> "-", start |-> Civil(now - delta.days),
             end |-> END_DATE_DEFAULT]

\* calculate_date_range_from_frequency
calculate_date_range_from_frequency(frequency, now) ==
    LET days == IF frequency = "daily" THEN 1
                ELSE IF frequency = "weekly" THEN 7
                ELSE IF frequency = "biweekly" THEN 14
                ELSE IF frequency = "monthly" THEN 30
                ELSE 7
    IN [raises |-> "-", start |-> Civil(now - days), end |-> Civil(now)]

\* the numbers of the frequency strings of SpecFrequency: the small ones
\* and some thousands
Numbers == 0..MaxNumber \cup {1000 * k : k \in 1..MaxNumber}

Units ==
    {<<"d", "a", "y">>, <<"d", "a", "y", "s">>, <<"D", "a", "y", "s">>,
     <<"w", "e", "e", "k">>, <<"w", "e", "e", "k", "s">>,
     <<"m", "o", "n", "t", "h">>, <<"M", "o", "n", "t", "h", "s">>,
     <<"y", "e", "a", "r">>, <<"y", "e", "a", "r", "s">>}

OtherUnits == {<<"h", "o", "u", "r", "s">>, <<>>}

\* "<n> <unit>", "<n><unit>" or " <n> <unit> "
FrequencyString(n, blanks, unit) ==
    IF blanks = 2 THEN <<" ">> \o IntStr(n) \o <<" ">> \o unit \o <<" ">>
    ELSE IF blanks = 1 THEN IntStr(n) \o <<" ">> \o unit
    ELSE IntStr(n) \o unit

FrequencyInputs ==
    {[n |-> n, blanks |-> b, unit |-> u] :
        n \in Numbers, b \in 0..2, u \in Units \cup OtherUnits}

SearchFrequencies == {"daily", "weekly", "biweekly", "monthly", "yearly"}

\* datetime.now() of the runs: 2026-11-03 and 2024-02-29
Nows == {739923, 738945}

\* ------------------------------------------------------------------------
\* core/paper_processor.py : the title and link extractors on raw values.
\* A raw value is tagged with its Python type: the key is absent, or the
\* value is None, a list, or a string; an entry of an ELocationID list is
\* a StringElement (a str with .attributes), an object with .attributes and
\* .value, a plain str or an int.
\* ------------------------------------------------------------------------
\* the title of a record without one
SentinelTitle == <<"No title available">>

AbsentKey == [kind |-> "absent"]
NoneVal == [kind |-> "none"]
ListVal(items) == [kind |-> "list", items |-> items]
StrVal(s) == [kind |-> "str", s |-> s]

\* extract_crossref_title(paper), on the value of paper's "title" key
extract_crossref_title(title_value) ==
    LET title == IF title_value = AbsentKey THEN ListVal(<<SentinelTitle>>)
                 ELSE title_value
    IN IF title.kind = "list" /\ title.items # <<>> THEN StrVal(title.items[1])
       ELSE IF title.kind = "str" THEN title
       ELSE StrVal(SentinelTitle)

\* article_data.get("ArticleTitle", "No title available")
extract_pubmed_title(title_value) ==
    IF title_value = AbsentKey THEN StrVal(SentinelTitle) ELSE title_value

HasAttributes(loc) == loc.cls \in {"StringElement", "ValueElement"}
HasValue(loc) == loc.cls = "ValueElement"
IsStr(loc) == loc.cls \in {"StringElement", "str"}
\* bool(loc)
Truthy(loc) ==
    IF IsStr(loc) THEN loc.text # ""
    ELSE IF loc.cls = "int" THEN loc.text # "0"
    ELSE TRUE

\* f"https://doi.org/{s}"
DoiLink(s) == <<"https://doi.org/", s>>
NoLink == <<"No link available">>

\* the loop returns at DOI-typed entries only
RECURSIVE LinkLoopTypedOnly(_)
LinkLoopTypedOnly(locs) ==
    IF locs = <<>> THEN <<>>
    ELSE IF Head(locs).EIdType = "doi"
    THEN DoiLink(IF HasValue(Head(locs)) THEN Head(locs).value
                 ELSE Head(locs).text)
    ELSE LinkLoopTypedOnly(Tail(locs))

\* the for loop of extract_pubmed_link: the link it returns, or <<>> when it
\* ends without returning
RECURSIVE LinkLoop(_)
LinkLoop(locs) ==
    IF locs = <<>> THEN <<>>
    ELSE LET loc == Head(locs)
         IN IF HasAttributes(loc) /\ HasValue(loc)
            THEN IF loc.EIdType = "doi" THEN DoiLink(loc.value)
                 ELSE LinkLoop(Tail(locs))
            ELSE IF HasAttributes(loc)
            THEN IF loc.EIdType = "doi" THEN DoiLink(loc.text)
                 ELSE LinkLoop(Tail(locs))
            ELSE IF IsStr(loc) THEN DoiLink(loc.text)
            ELSE LinkLoop(Tail(locs))

\* extract_pubmed_link(article_data), on the value of "ELocationID"
extract_pubmed_link(elocation) ==
    IF elocation.kind = "list"
    THEN IF LinkLoop(elocation.items) # <<>> THEN LinkLoop(elocation.items)
         ELSE IF elocation.items # <<>>
         THEN LET first_loc == elocation.items[1]
              IN IF HasValue(first_loc) THEN <<first_loc.value>>
                 ELSE <<first_loc.text>>
         ELSE NoLink
    ELSE IF elocation.kind = "single"
    THEN LET loc == elocation.entry
         IN IF IsStr(loc) THEN DoiLink(loc.text)
            ELSE IF HasValue(loc) THEN DoiLink(loc.value)
            ELSE IF Truthy(loc) THEN DoiLink(loc.text)
            ELSE NoLink
    ELSE NoLink

\* sequences over set of length at most n
SeqsUpTo(set, n) == UNION {[1..k -> set] : k \in 0..n}

TitleStrings == {<<>>, <<"a">>, <<" ">>}

TitleValues ==
    {AbsentKey, NoneVal}
    \cup {ListVal(l) : l \in SeqsUpTo(TitleStrings, MaxTitles)}
    \cup {StrVal(s) : s \in TitleStrings}

\* text is str(loc); value is loc.value where there is one
LocEntries ==
    {[cls |-> "StringElement", EIdType |-> t, text |-> x, value |-> ""]
        : t \in {"doi", "pii"}, x \in {"10.1/x", "10.1/y"}}
    \cup {[cls |-> "StringElement", EIdType |-> "None", text |-> "10.1/x",
           value |-> ""]}
    \cup {[cls |-> "ValueElement", EIdType |-> t, text |-> "<obj>",
           value |-> "10.1/v"] : t \in {"doi", "pii"}}
    \cup {[cls |-> "str", EIdType |-> "None", text |-> x, value |-> ""]
            : x \in {"10.1/p", ""}}
    \cup {[cls |-> "int", EIdType |-> "None", text |-> x, value |-> ""]
            : x \in {"5", "0"}}

ELocationValues ==
    {AbsentKey, NoneVal}
    \cup {ListVal(l) : l \in SeqsUpTo(LocEntries, MaxLocs)}
    \cup {[kind |-> "single", entry |-> e] : e \in LocEntries}

\* ------------------------------------------------------------------------
\* State
\* ------------------------------------------------------------------------
VARIABLES
    email, topics, journals, authors, search_mode,
    status, completed_at, error_message,
    total_papers_found, keyword_papers_count, author_papers_count, papers,
    pc, i, pmids, j, attempt, retry_attempts,
    keyword_papers, author_papers, keyword_freq,
    all_publications, crossref_papers,
    fetch_events, fetch_ret, crossref_events,
    Entrez_email, requests, raised, search_failed, ids_returned,
    fetch_failures, searched, fetch_log,
    components, unique_components, reprocessed, pubs, unique_publications, dpc,
    ppc, components_keyword, components_pubmed_author, components_crossref,
    components_orcid, source_log,
    runs, sent,
    date_input, date_tag, date_result, date_pc,
    freq_input, freq_now, freq_result, freq_pc,
    ext_fn, ext_input, ext_result, ext_pc

configVars == <<email, topics, journals, authors, search_mode>>
rowVars == <<status, completed_at, error_message, total_papers_found,
             keyword_papers_count, author_papers_count, papers>>
ctlVars == <<pc, i, pmids, j, attempt, retry_attempts>>
resultVars == <<keyword_papers, author_papers, keyword_freq,
                all_publications, crossref_papers>>
logVars == <<fetch_events, fetch_ret, crossref_events,
             Entrez_email, requests, raised, search_failed, ids_returned,
             fetch_failures, searched, fetch_log>>
dedupVars == <<components, unique_components, reprocessed, pubs,
               unique_publications, dpc>>
processVars == <<ppc, components_keyword, components_pubmed_author,
                 components_crossref, components_orcid, source_log>>
\* the runs of one server process and the requests they sent
runVars == <<runs, sent>>
\* one call of parse_api_date: arguments, result, position
dateVars == <<date_input, date_tag, date_result, date_pc>>
\* one call of a date range function: frequency, clock, result, position
freqVars == <<freq_input, freq_now, freq_result, freq_pc>>
\* one call of an extractor: function, raw value, result, position
extVars == <<ext_fn, ext_input, ext_result, ext_pc>>
vars == <<configVars, rowVars, ctlVars, resultVars, logVars, dedupVars, processVars, runVars, dateVars, freqVars, extVars>>

\* dict assignment d[key] = value
Put(d, key, value) ==
    [x \in DOMAIN d \cup {key} |-> IF x = key THEN value ELSE d[x]]

EmptyDict == [x \in {} |-> 0]


\* ------------------------------------------------------------------------
\* fetch_modules/pubmed_client.py : PubMedClient
\* ------------------------------------------------------------------------
Sleep(d) == [e |-> "sleep", d |-> d, r |-> "-"]

Call(r) == [e |-> "efetch", d |-> 0, r |-> r]

\* search_pmids: the IdList of the answer, [] on any exception
search_pmids_raising(r) ==
    [raised |-> ~r.ok, pmids |-> [k \in 1..r.n |-> k]]

search_pmids(r) ==
    [raised |-> FALSE, pmids |-> IF r.ok THEN [k \in 1..r.n |-> k] ELSE <<>>]

\* the gate without the check of topics
PubMedCondNoTopics == search_mode \in {"keywords", "both"} /\ journals # <<>>

\* keyword_frequencies[keyword] = len(pmids)
KeywordFrequencyCapped(ids) == IF Len(ids) > 1 THEN 1 ELSE Len(ids)

KeywordFrequency(ids) == Len(ids)

\* one pass of the loop of fetch_paper_details: the rate-limit sleep, the
\* efetch call answered r, and what the handlers do with the answer.
\* ret: "paper" (return paper_data), "none" (return None), "retry" (next pass)
FetchAttemptUnbounded(a, r, R) ==
    IF r = "ok"
    THEN [ret |-> "paper", events |-> <<Sleep(API_DELAY), Call(r)>>]
    ELSE IF r \in {"http429", "http500"}
    THEN [ret |-> "retry", events |-> <<Sleep(API_DELAY), Call(r), Sleep(20)>>]
    ELSE [ret |-> "none", events |-> <<Sleep(API_DELAY), Call(r)>>]

FetchAttemptNoRetry(a, r, R) ==
    [ret |-> IF r = "ok" THEN "paper" ELSE "none",
     events |-> <<Sleep(API_DELAY), Call(r)>>]

\* the rate-limit sleep is taken before the first attempt only
FetchAttemptRetryUndelayed(a, r, R) ==
    LET before == IF a = 0 THEN <<Sleep(API_DELAY)>> ELSE <<>>
    IN IF r = "ok" THEN [ret |-> "paper", events |-> before \o <<Call(r)>>]
       ELSE IF r \in HTTPErrors /\ a # R - 1
       THEN [ret |-> "retry",
             events |-> before \o <<Call(r), Sleep(API_DELAY * (a + 1))>>]
       ELSE [ret |-> "none", events |-> before \o <<Call(r)>>]

\* every failure is retried while attempts remain
FetchAttemptRetriesError(a, r, R) ==
    IF r = "ok"
    THEN [ret |-> "paper", events |-> <<Sleep(API_DELAY), Call(r)>>]
    ELSE IF a = R - 1
    THEN [ret |-> "none", events |-> <<Sleep(API_DELAY), Call(r)>>]
    ELSE [ret |-> "retry",
          events |-> <<Sleep(API_DELAY), Call(r), Sleep(API_DELAY * (a + 1))>>]

FetchAttempt(a, r, R) ==
    IF r = "ok"
    THEN [ret |-> "paper", events |-> <<Sleep(API_DELAY), Call(r)>>]
    ELSE IF r \in HTTPErrors
    THEN IF a = R - 1
         THEN [ret |-> "none", events |-> <<Sleep(API_DELAY), Call(r)>>]
         ELSE [ret |-> "retry",
               events |-> <<Sleep(API_DELAY), Call(r),
                            Sleep(API_DELAY * (a + 1))>>]
    ELSE [ret |-> "none", events |-> <<Sleep(API_DELAY), Call(r)>>]

\* the answers of the efetch calls among the events of one fetch
Answers(events) ==
    LET calls == SelectSeq(events, LAMBDA ev : ev.e = "efetch")
    IN [k \in 1..Len(calls) |-> calls[k].r]

\* paper_data with the metadata search_by_keywords / search_by_authors add
PaperData(pmid, source, key) ==
    [pmid |-> pmid, Source |-> source, search_key |-> key,
     PubmedArticle |-> <<Article(pmid)>>]

\* ------------------------------------------------------------------------
\* fetch_modules/pubmed_client.py : lookup_pubmed, as run_user_search calls it
\* ------------------------------------------------------------------------
named_authors == authors

orcids == [k \in 1..Len(authors) |-> authors[k].orcid]

\* mode="keywords" if search_mode == "keywords" else "both"
LookupMode == IF search_mode = "keywords" THEN "keywords" ELSE "both"

KeywordBranch == LookupMode \in {"keywords", "both"} /\ topics # <<>>

AuthorBranch == LookupMode \in {"authors", "both"} /\ named_authors # <<>>

\* the next author from position k on that has a name (0: none is left)
NextNamed(k) ==
    LET S == {n \in k..Len(named_authors) : named_authors[n].name # 0}
    IN IF S = {} THEN 0 ELSE CHOOSE n \in S : \A m \in S : n <= m

\* main.py, search_publications(config, date_range, mode) of the command
\* line tool: the lookups it calls (its lookup_pubmed call passes
\* mode="keywords"; the PubMed author search is commented out)
search_publications(mode) ==
    LET author_branch == /\ mode \in {"authors", "both"}
                         /\ (orcids # <<>> \/ named_authors # <<>>)
    IN [lookup_pubmed |-> mode \in {"keywords", "both"} /\ topics # <<>>,
        author_branch |-> author_branch,
        lookup_crossref |-> author_branch /\ orcids # <<>>]

\* validate_config passed: email, journals and topics are not empty
ValidConfig == email # "" /\ journals # <<>> /\ topics # <<>>

\* where control goes when lookup_pubmed returns to run_user_search
AfterLookup == [pc |-> "crossref_gate", i |-> 0]

\* search_by_authors: the first author searched, or straight back
AfterKeywords ==
    IF AuthorBranch /\ NextNamed(1) # 0
    THEN [pc |-> "au_esearch", i |-> NextNamed(1)]
    ELSE AfterLookup

\* the keyword loop moves on whatever the keyword's search gave
AfterKeyword(k) ==
    IF k < Len(topics) THEN [pc |-> "kw_esearch", i |-> k + 1]
    ELSE AfterKeywords

AfterAuthor(k) ==
    IF NextNamed(k + 1) # 0 THEN [pc |-> "au_esearch", i |-> NextNamed(k + 1)]
    ELSE AfterLookup

\* the first step inside lookup_pubmed once the client is built
AfterClient ==
    IF KeywordBranch THEN [pc |-> "kw_esearch", i |-> 1] ELSE AfterKeywords

\* ------------------------------------------------------------------------
\* fetch_modules/crossref_client.py
\* ------------------------------------------------------------------------
\* search_by_orcid under the handler of lookup_crossref: the items added to
\* all_publications for one ORCID
search_by_orcid(orcid, r) ==
    IF r = "items" THEN <<Item(orcid)>> ELSE <<>>

\* the publications of this ORCID replace those gathered so far
ExtendReplacing(all, publications) == publications

\* all_publications.extend(publications)
Extend(all, publications) == all \o publications

\* pub.get("DOI", "").lower()
DoiKeyCaseSensitive(pub) == IF pub.has_DOI THEN pub.DOI ELSE <<>>

DoiKey(pub) == Lower(IF pub.has_DOI THEN pub.DOI ELSE <<>>)

\* the kept record is rewritten with its lower-cased DOI
RECURSIVE DoiLoopNormalizing(_, _, _)
DoiLoopNormalizing(publications, seen_dois, unique_pubs) ==
    IF publications = <<>> THEN unique_pubs
    ELSE LET pub == Head(publications)
             doi == DoiKey(pub)
         IN IF doi # <<>> /\ doi \notin seen_dois
            THEN DoiLoopNormalizing(Tail(publications), seen_dois \cup {doi},
                                    Append(unique_pubs, [pub EXCEPT !.DOI = doi]))
            ELSE IF doi = <<>>
            THEN DoiLoopNormalizing(Tail(publications), seen_dois,
                                    Append(unique_pubs, pub))
            ELSE DoiLoopNormalizing(Tail(publications), seen_dois, unique_pubs)

RECURSIVE DoiLoop(_, _, _)
DoiLoop(publications, seen_dois, unique_pubs) ==
    IF publications = <<>> THEN unique_pubs
    ELSE LET pub == Head(publications)
             doi == DoiKey(pub)
         IN IF doi # <<>> /\ doi \notin seen_dois
            THEN DoiLoop(Tail(publications), seen_dois \cup {doi},
                         Append(unique_pubs, pub))
            ELSE IF doi = <<>>
            THEN DoiLoop(Tail(publications), seen_dois, Append(unique_pubs, pub))
            ELSE DoiLoop(Tail(publications), seen_dois, unique_pubs)

remove_duplicate_dois(publications) == DoiLoop(publications, {}, <<>>)

\* .lower() on a DOI that is not a string raises AttributeError
DoisRaise(publications) ==
    \E k \in 1..Len(publications) :
        publications[k].has_DOI /\ ~publications[k].doi_is_str

\* ------------------------------------------------------------------------
\* core/paper_processor.py : extraction and process_papers
\* ------------------------------------------------------------------------
\* the articles process_pubmed_papers hands to extract_pubmed_paper_info
RECURSIVE ArticlesOf(_)
ArticlesOf(raw) ==
    IF raw = <<>> THEN <<>>
    ELSE SelectSeq(Head(raw).PubmedArticle, LAMBDA a : a.has_Article)
         \o ArticlesOf(Tail(raw))

\* article_data.get("Journal", {}).get("Title", ...) on a Journal that is no
\* mapping raises AttributeError
ExtractRaises(raw) ==
    \E k \in 1..Len(ArticlesOf(raw)) : ~ArticlesOf(raw)[k].journal_is_mapping

extract_pubmed_paper_info(article) ==
    [has_Title |-> TRUE,
     Title |-> IF article.has_ArticleTitle THEN article.ArticleTitle
               ELSE SentinelTitle,
     Source |-> "pubmed",
     id |-> article.pmid]

\* extract_crossref_title: title[0] of a non-empty list, else the sentinel
extract_crossref_paper_info(paper) ==
    [has_Title |-> TRUE,
     Title |-> IF paper.has_title THEN paper.title ELSE SentinelTitle,
     Source |-> "crossref",
     id |-> paper.orcid]

process_pubmed_papers(raw) ==
    LET arts == ArticlesOf(raw)
    IN [k \in 1..Len(arts) |-> extract_pubmed_paper_info(arts[k])]

process_crossref_papers(raw) ==
    [k \in 1..Len(raw) |-> extract_crossref_paper_info(raw[k])]

\* the loop over the components writes nothing
TagNone(comps, source) == comps

Tag(comps, source) == [k \in 1..Len(comps) |-> [comps[k] EXCEPT !.Source = source]]

\* process_papers: <<components_keyword, components_orcid>>
process_papers(kw, au, cr) ==
    <<remove_duplicate_papers(Tag(process_pubmed_papers(kw), "keyword")),
      remove_duplicate_papers(Tag(process_pubmed_papers(au), "pubmed_author")
                              \o Tag(process_crossref_papers(cr), "crossref"))>>

ProcessRaises == ExtractRaises(keyword_papers) \/ ExtractRaises(author_papers)

\* ------------------------------------------------------------------------
\* Initial states
\* ------------------------------------------------------------------------
InitRow ==
    /\ status = "absent"
    /\ completed_at = FALSE
    /\ error_message = FALSE
    /\ total_papers_found = 0
    /\ keyword_papers_count = 0
    /\ author_papers_count = 0
    /\ papers = <<>>

InitResults ==
    /\ keyword_papers = <<>>
    /\ author_papers = <<>>
    /\ keyword_freq = EmptyDict
    /\ all_publications = <<>>
    /\ crossref_papers = <<>>

InitLog ==
    /\ fetch_events = <<>>
    /\ fetch_ret = "pending"
    /\ crossref_events = <<>>
    /\ Entrez_email = ""
    /\ requests = {}
    /\ raised = {}
    /\ search_failed = {}
    /\ ids_returned = EmptyDict
    /\ fetch_failures = EmptyDict
    /\ searched = <<>>
    /\ fetch_log = <<>>

InitDedupIdle ==
    /\ components = <<>>
    /\ unique_components = <<>>
    /\ reprocessed = <<>>
    /\ pubs = <<>>
    /\ unique_publications = <<>>
    /\ dpc = "idle"

InitExtIdle ==
    /\ ext_fn = "-"
    /\ ext_input = AbsentKey
    /\ ext_result = <<>>
    /\ ext_pc = "idle"

InitFreqIdle ==
    /\ freq_input = ""
    /\ freq_now = 0
    /\ freq_result = [raises |-> "-", start |-> <<>>, end |-> <<>>]
    /\ freq_pc = "idle"

InitDateIdle ==
    /\ date_input = NoneValue
    /\ date_tag = "unknown"
    /\ date_result = <<>>
    /\ date_pc = "idle"

InitRunsIdle ==
    /\ runs = <<>>
    /\ sent = {}

InitProcessIdle ==
    /\ ppc = "idle"
    /\ components_keyword = <<>>
    /\ components_pubmed_author = <<>>
    /\ components_crossref = <<>>
    /\ components_orcid = <<>>
    /\ source_log = <<>>

\* a user row, the active rows of the user's configuration, the search mode
Init ==
    /\ email \in {"", "user@lab.org"}
    /\ topics \in {[k \in 1..n |-> k] : n \in 0..MaxKeywords}
    /\ journals \in {<<>>, <<1>>}
    /\ authors \in UNION {AuthorRows(n) : n \in 0..MaxAuthors}
    /\ Len(topics) + Len(authors) <= MaxRows
    /\ search_mode \in {"keywords", "authors", "both"}
    /\ InitRow
    /\ pc = "start"
    /\ i = 0
    /\ pmids = <<>>
    /\ j = 0
    /\ attempt = 0
    /\ retry_attempts = DEFAULT_RETRY_ATTEMPTS
    /\ InitResults
    /\ InitLog
    /\ InitDedupIdle
    /\ InitProcessIdle
    /\ InitRunsIdle
    /\ InitDateIdle
    /\ InitFreqIdle
    /\ InitExtIdle

\* the variables of run_user_search while another entry point is exercised
InitNoRun ==
    /\ email = "user@lab.org"
    /\ topics = <<1>>
    /\ journals = <<1>>
    /\ authors = <<>>
    /\ search_mode = "keywords"
    /\ InitRow
    /\ i = 1
    /\ InitResults
    /\ InitLog
    /\ InitProcessIdle
    /\ InitRunsIdle
    /\ InitDateIdle
    /\ InitFreqIdle
    /\ InitExtIdle

\* ------------------------------------------------------------------------
\* app/services/search_service.py : run_user_search, one step per action
\* ------------------------------------------------------------------------
Goto(nx) == pc' = nx.pc /\ i' = nx.i

\* the SearchRun row is created with status="running" and committed
StartRun ==
    /\ pc = "start"
    /\ status' = "running"
    /\ pc' = "pubmed_gate"
    /\ UNCHANGED <<configVars, completed_at, error_message, total_papers_found,
                   keyword_papers_count, author_papers_count, papers,
                   i, pmids, j, attempt, retry_attempts,
                   resultVars, logVars, dedupVars, processVars, runVars, dateVars, freqVars, extVars>>

\* the gate of the PubMed search ignores the mode
PubMedCondAnyMode == topics # <<>> /\ journals # <<>>

PubMedCond ==
    search_mode \in {"keywords", "both"} /\ topics # <<>> /\ journals # <<>>

SkipPubMed ==
    /\ pc = "pubmed_gate"
    /\ ~PubMedCond
    /\ pc' = "crossref_gate"
    /\ UNCHANGED <<configVars, rowVars, i, pmids, j, attempt, retry_attempts,
                   resultVars, logVars, dedupVars, processVars, runVars, dateVars, freqVars, extVars>>

\* lookup_pubmed raises ValueError on a missing email; the handler around the
\* call prints it and run_user_search goes on
LookupPubMedNoEmail ==
    /\ pc = "pubmed_gate"
    /\ PubMedCond
    /\ email = ""
    /\ raised' = raised \cup {<<"lookup_pubmed", "ValueError">>}
    /\ pc' = "crossref_gate"
    /\ UNCHANGED <<configVars, rowVars, i, pmids, j, attempt, retry_attempts,
                   resultVars, fetch_events, fetch_ret, crossref_events,
                   Entrez_email, requests, search_failed, ids_returned,
                   fetch_failures, searched, fetch_log, dedupVars, processVars, runVars, dateVars, freqVars, extVars>>

\* PubMedClient(email=email) sets the module-level Entrez.email
LookupPubMedEnter ==
    /\ pc = "pubmed_gate"
    /\ PubMedCond
    /\ email # ""
    /\ Entrez_email' = email
    /\ Goto(AfterClient)
    /\ UNCHANGED <<configVars, rowVars, pmids, j, attempt, retry_attempts,
                   resultVars, fetch_events, fetch_ret, crossref_events,
                   requests, raised, search_failed, ids_returned,
                   fetch_failures, searched, fetch_log, dedupVars, processVars, runVars, dateVars, freqVars, extVars>>

\* an exception leaving lookup_pubmed: the assignment of its result never
\* happens, the handler of run_user_search prints it
LookupRaised ==
    /\ keyword_papers' = <<>>
    /\ author_papers' = <<>>
    /\ keyword_freq' = EmptyDict
    /\ raised' = raised \cup {<<"lookup_pubmed", "Exception">>}
    /\ Goto(AfterLookup)
    /\ pmids' = <<>>
    /\ j' = 0
    /\ attempt' = 0
    /\ UNCHANGED <<ids_returned, search_failed, requests, searched>>

\* the answer that made fetch_paper_details return None
FailureKind(r) == IF r \in {"http429", "http500"} THEN "transient" ELSE "other"

\* the IDs the ID searches of the first k keywords returned
RECURSIVE IdsReturned(_)
IdsReturned(k) ==
    IF k = 0 THEN 0 ELSE ids_returned[topics[k]] + IdsReturned(k - 1)

\* d[key] += 1, from 0
Count(d, key) == Put(d, key, IF key \in DOMAIN d THEN d[key] + 1 ELSE 1)

\* search_by_keywords: the ID search of keyword topics[i]
KwEsearch ==
    /\ pc = "kw_esearch"
    /\ \E r \in KeywordSearchResponses(IdsReturned(i - 1)) :
        LET res == search_pmids(r)
            keyword == topics[i]
        IN IF res.raised THEN LookupRaised
           ELSE /\ keyword_freq' = Put(keyword_freq, keyword,
                                       KeywordFrequency(res.pmids))
                /\ ids_returned' = Put(ids_returned, keyword, r.n)
                /\ search_failed' = IF r.ok THEN search_failed
                                    ELSE search_failed \cup {<<"keyword", keyword>>}
                /\ requests' = requests \cup {"esearch"}
                /\ searched' = Append(searched, <<"keyword", keyword>>)
                /\ pmids' = res.pmids
                /\ attempt' = 0
                /\ IF res.pmids # <<>>
                   THEN pc' = "kw_efetch" /\ i' = i /\ j' = 1
                   ELSE Goto(AfterKeyword(i)) /\ j' = 0
                /\ UNCHANGED <<keyword_papers, author_papers, raised>>
    /\ UNCHANGED <<configVars, rowVars, retry_attempts, all_publications,
                   crossref_papers, fetch_events, fetch_ret, crossref_events,
                   Entrez_email, fetch_failures, fetch_log, dedupVars, processVars, runVars, dateVars, freqVars, extVars>>

\* search_by_keywords: one pass of fetch_paper_details for pmids[j]
KwEfetch ==
    /\ pc = "kw_efetch"
    /\ attempt < retry_attempts
    /\ \E r \in EfetchResponses :
        LET out == FetchAttempt(attempt, r, retry_attempts)
            keyword == topics[i]
        IN /\ requests' = requests \cup {"efetch"}
           /\ IF out.ret = "retry"
              THEN /\ attempt' = attempt + 1
                   /\ UNCHANGED <<pc, i, j, pmids, keyword_papers, fetch_failures>>
              ELSE /\ attempt' = 0
                   /\ keyword_papers' =
                          IF out.ret = "paper"
                          THEN Append(keyword_papers,
                                      PaperData(pmids[j], "keyword", keyword))
                          ELSE keyword_papers
                   /\ fetch_failures' =
                          IF out.ret = "paper" THEN fetch_failures
                          ELSE Count(fetch_failures,
                                     <<keyword, FailureKind(r)>>)
                   /\ IF j < Len(pmids)
                      THEN j' = j + 1 /\ UNCHANGED <<pc, i, pmids>>
                      ELSE Goto(AfterKeyword(i)) /\ j' = 0 /\ pmids' = <<>>
    /\ UNCHANGED <<configVars, rowVars, retry_attempts, author_papers,
                   keyword_freq, all_publications, crossref_papers,
                   fetch_events, fetch_ret, crossref_events, Entrez_email,
                   raised, search_failed, ids_returned, searched, fetch_log,
                   dedupVars, processVars, runVars, dateVars, freqVars, extVars>>

\* search_by_authors: the ID search of named_authors[i]
AuEsearch ==
    /\ pc = "au_esearch"
    /\ \E r \in AuthorSearchResponses :
        LET res == search_pmids(r)
            author_name == named_authors[i].name
        IN IF res.raised THEN LookupRaised
           ELSE /\ search_failed' = IF r.ok THEN search_failed
                                    ELSE search_failed \cup {<<"author", author_name>>}
                /\ requests' = requests \cup {"esearch"}
                /\ searched' = Append(searched, <<"author", author_name>>)
                /\ pmids' = res.pmids
                /\ attempt' = 0
                /\ IF res.pmids # <<>>
                   THEN pc' = "au_efetch" /\ i' = i /\ j' = 1
                   ELSE Goto(AfterAuthor(i)) /\ j' = 0
                /\ UNCHANGED <<keyword_papers, author_papers, keyword_freq,
                               raised, ids_returned>>
    /\ UNCHANGED <<configVars, rowVars, retry_attempts, all_publications,
                   crossref_papers, fetch_events, fetch_ret, crossref_events,
                   Entrez_email, fetch_failures, fetch_log, dedupVars, processVars, runVars, dateVars, freqVars, extVars>>

\* search_by_authors: one pass of fetch_paper_details for pmids[j]
AuEfetch ==
    /\ pc = "au_efetch"
    /\ attempt < retry_attempts
    /\ \E r \in EfetchResponses :
        LET out == FetchAttempt(attempt, r, retry_attempts)
            author_name == named_authors[i].name
        IN /\ requests' = requests \cup {"efetch"}
           /\ IF out.ret = "retry"
              THEN /\ attempt' = attempt + 1
                   /\ UNCHANGED <<pc, i, j, pmids, author_papers>>
              ELSE /\ attempt' = 0
                   /\ author_papers' =
                          IF out.ret = "paper"
                          THEN Append(author_papers,
                                      PaperData(pmids[j], "pubmed_author",
                                                author_name))
                          ELSE author_papers
                   /\ IF j < Len(pmids)
                      THEN j' = j + 1 /\ UNCHANGED <<pc, i, pmids>>
                      ELSE Goto(AfterAuthor(i)) /\ j' = 0 /\ pmids' = <<>>
    /\ UNCHANGED <<configVars, rowVars, retry_attempts, keyword_papers,
                   keyword_freq, all_publications, crossref_papers,
                   fetch_events, fetch_ret, crossref_events, Entrez_email,
                   raised, search_failed, ids_returned, fetch_failures,
                   searched, fetch_log, dedupVars, processVars, runVars, dateVars, freqVars, extVars>>

\* the gate of the CrossRef search ignores the mode
CrossrefCondAnyMode == orcids # <<>>

CrossrefCond == search_mode \in {"authors", "both"} /\ orcids # <<>>

SkipCrossref ==
    /\ pc = "crossref_gate"
    /\ ~CrossrefCond
    /\ pc' = "process"
    /\ UNCHANGED <<configVars, rowVars, i, pmids, j, attempt, retry_attempts,
                   resultVars, logVars, dedupVars, processVars, runVars, dateVars, freqVars, extVars>>

\* lookup_crossref builds its CrossRefClient and starts the loop
LookupCrossrefEnter ==
    /\ pc = "crossref_gate"
    /\ CrossrefCond
    /\ pc' = "crossref_get"
    /\ i' = 1
    /\ all_publications' = <<>>
    /\ UNCHANGED <<configVars, rowVars, pmids, j, attempt, retry_attempts,
                   keyword_papers, author_papers, keyword_freq, crossref_papers,
                   logVars, dedupVars, processVars, runVars, dateVars, freqVars, extVars>>

\* lookup_crossref: the query of orcids[i]; after the last one the DOI
\* deduplication, whose AttributeError run_user_search catches
CrossrefGet ==
    /\ pc = "crossref_get"
    /\ \E r \in CrossrefResponses :
        LET all == all_publications \o search_by_orcid(orcids[i], r)
        IN /\ crossref_events' =
                  crossref_events
                  \o (IF i > 1 THEN <<Sleep(RATE_LIMIT_DELAY)>> ELSE <<>>)
                  \o <<[e |-> "works", d |-> 0, r |-> "-"]>>
           /\ requests' = requests \cup {"crossref"}
           /\ IF i < Len(orcids)
              THEN /\ i' = i + 1
                   /\ all_publications' = all
                   /\ UNCHANGED <<pc, crossref_papers, raised>>
              ELSE /\ pc' = "process"
                   /\ i' = 0
                   /\ all_publications' = <<>>
                   /\ IF DoisRaise(all)
                      THEN /\ raised' =
                                  raised \cup {<<"lookup_crossref", "AttributeError">>}
                           /\ crossref_papers' = <<>>
                      ELSE /\ crossref_papers' = remove_duplicate_dois(all)
                           /\ UNCHANGED raised
    /\ UNCHANGED <<configVars, rowVars, pmids, j, attempt, retry_attempts,
                   keyword_papers, author_papers, keyword_freq,
                   fetch_events, fetch_ret, Entrez_email, search_failed,
                   ids_returned, fetch_failures, searched, fetch_log, dedupVars, processVars, runVars, dateVars, freqVars, extVars>>

\* process_papers returned: the Paper rows are added and the run is updated
FinishCompleted ==
    /\ pc = "process"
    /\ ~ProcessRaises
    /\ LET comps == process_papers(keyword_papers, author_papers, crossref_papers)
           all_components == comps[1] \o comps[2]
       IN /\ papers' = all_components
          /\ total_papers_found' = Len(all_components)
          /\ keyword_papers_count' = Len(comps[1])
          /\ author_papers_count' = Len(comps[2])
    /\ status' = "completed"
    /\ completed_at' = TRUE
    /\ pc' = "commit"
    /\ UNCHANGED <<configVars, error_message, i, pmids, j, attempt,
                   retry_attempts, resultVars, logVars, dedupVars, processVars, runVars, dateVars, freqVars, extVars>>

\* the handler leaves completed_at unset
FinishFailedNoTimestamp ==
    /\ pc = "process"
    /\ ProcessRaises
    /\ status' = "failed"
    /\ error_message' = TRUE
    /\ raised' = raised \cup {<<"process_papers", "AttributeError">>}
    /\ pc' = "commit"
    /\ UNCHANGED <<configVars, completed_at, total_papers_found,
                   keyword_papers_count, author_papers_count, papers, i, pmids,
                   j, attempt, retry_attempts, resultVars, fetch_events,
                   fetch_ret, crossref_events, Entrez_email, requests,
                   search_failed, ids_returned, fetch_failures, searched,
                   fetch_log, dedupVars, processVars, runVars, dateVars,
                   freqVars, extVars>>

\* process_papers raised: the outer handler marks the run failed
FinishFailed ==
    /\ pc = "process"
    /\ ProcessRaises
    /\ status' = "failed"
    /\ error_message' = TRUE
    /\ completed_at' = TRUE
    /\ raised' = raised \cup {<<"process_papers", "AttributeError">>}
    /\ pc' = "commit"
    /\ UNCHANGED <<configVars, total_papers_found, keyword_papers_count,
                   author_papers_count, papers, i, pmids, j, attempt,
                   retry_attempts, resultVars, fetch_events, fetch_ret,
                   crossref_events, Entrez_email, requests, search_failed,
                   ids_returned, fetch_failures, searched, fetch_log, dedupVars, processVars, runVars, dateVars, freqVars, extVars>>

\* db.commit(); db.refresh(search_run); return search_run
ReturnRetrying ==
    /\ pc = "commit"
    /\ pc' = IF status = "failed" THEN "start" ELSE "returned"
    /\ UNCHANGED <<configVars, rowVars, i, pmids, j, attempt, retry_attempts,
                   resultVars, logVars, dedupVars, processVars, runVars, dateVars, freqVars, extVars>>

Return ==
    /\ pc = "commit"
    /\ pc' = "returned"
    /\ UNCHANGED <<configVars, rowVars, i, pmids, j, attempt, retry_attempts,
                   resultVars, logVars, dedupVars, processVars, runVars, dateVars, freqVars, extVars>>

Next ==
    \/ StartRun
    \/ SkipPubMed
    \/ LookupPubMedNoEmail
    \/ LookupPubMedEnter
    \/ KwEsearch
    \/ KwEfetch
    \/ AuEsearch
    \/ AuEfetch
    \/ SkipCrossref
    \/ LookupCrossrefEnter
    \/ CrossrefGet
    \/ FinishCompleted
    \/ FinishFailed
    \/ Return

Spec == Init /\ [][Next]_vars

\* run_user_search is one synchronous call: every step that can run does
SpecFair == Spec /\ WF_vars(Next)

\* ------------------------------------------------------------------------
\* PubMedClient.fetch_paper_details over a list of PMIDs, as the loop of
\* search_by_keywords calls it, for any retry_attempts; the sleeps and calls
\* of the PMID in hand are kept in fetch_events
\* ------------------------------------------------------------------------
InitFetch ==
    /\ InitNoRun
    /\ InitDedupIdle
    /\ pc = "fetch_loop"
    /\ pmids \in {[k \in 1..n |-> k] : n \in 1..MaxIds}
    /\ j = 1
    /\ attempt = 0
    /\ retry_attempts \in 0..MaxRetryAttempts

\* paper_data = self.fetch_paper_details(pmid, retry_attempts) returned ret
FetchReturned(ret, events) ==
    /\ fetch_ret' = ret
    /\ fetch_events' = events
    /\ attempt' = 0
    /\ keyword_papers' =
           IF ret = "paper"
           THEN Append(keyword_papers, PaperData(pmids[j], "keyword", topics[i]))
           ELSE keyword_papers
    /\ fetch_log' =
           Append(fetch_log,
                  [pmid |-> pmids[j], ret |-> ret,
                   calls |-> Len(Answers(events)),
                   last |-> IF Answers(events) = <<>> THEN "-"
                            ELSE Answers(events)[Len(Answers(events))]])
    /\ IF j < Len(pmids) THEN j' = j + 1 /\ pc' = pc
       ELSE j' = 0 /\ pc' = "fetch_done"

\* one pass of the retry loop for pmids[j]
FetchLoop ==
    /\ pc = "fetch_loop"
    /\ attempt < retry_attempts
    /\ \E r \in EfetchResponses :
        LET out == FetchAttempt(attempt, r, retry_attempts)
            events == (IF attempt = 0 THEN <<>> ELSE fetch_events) \o out.events
        IN IF out.ret = "retry"
           THEN /\ attempt' = attempt + 1
                /\ fetch_ret' = "pending"
                /\ fetch_events' = events
                /\ UNCHANGED <<pc, j, keyword_papers, fetch_log>>
           ELSE FetchReturned(out.ret, events)
    /\ UNCHANGED <<configVars, rowVars, i, pmids, retry_attempts, author_papers,
                   keyword_freq, all_publications, crossref_papers,
                   crossref_events, Entrez_email, requests, raised,
                   search_failed, ids_returned, fetch_failures, searched,
                   dedupVars, processVars, runVars, dateVars, freqVars, extVars>>

\* range(0) is empty: the loop body never runs and None is returned
FetchLoopNoAttempt ==
    /\ pc = "fetch_loop"
    /\ retry_attempts = 0
    /\ FetchReturned("none", <<>>)
    /\ UNCHANGED <<configVars, rowVars, i, pmids, retry_attempts, author_papers,
                   keyword_freq, all_publications, crossref_papers,
                   crossref_events, Entrez_email, requests, raised,
                   search_failed, ids_returned, fetch_failures, searched,
                   dedupVars, processVars, runVars, dateVars, freqVars, extVars>>

NextFetch == FetchLoop \/ FetchLoopNoAttempt

SpecFetch == InitFetch /\ [][NextFetch]_vars

\* ------------------------------------------------------------------------
\* remove_duplicate_papers on its own
\* ------------------------------------------------------------------------
\* titles: empty, blank, letter case, leading / trailing / inner spaces
Titles == {<<>>, <<" ">>, <<"a">>, <<"A">>, <<"a", " ">>, <<" ", "A">>,
           <<"a", "a">>, <<"a", " ", "a">>}

\* component dicts with and without the "Title" key; id is the position in
\* the input list
TitleFields ==
    {f \in [has_Title : BOOLEAN, Title : Titles] : ~f.has_Title => f.Title = <<>>}

ComponentLists ==
    UNION {{[k \in 1..n |-> [id |-> k, has_Title |-> f[k].has_Title,
                             Title |-> f[k].Title]] : f \in [1..n -> TitleFields]}
           : n \in 0..MaxLen}

\* DOI values of a CrossRef item: no "DOI" key, an empty string, strings
\* that differ in letter case only or in length, and a value that is no
\* string (null)
DoiFields ==
    {[has_DOI |-> FALSE, doi_is_str |-> TRUE, DOI |-> <<>>],
     [has_DOI |-> TRUE, doi_is_str |-> TRUE, DOI |-> <<>>],
     [has_DOI |-> TRUE, doi_is_str |-> TRUE, DOI |-> <<"a">>],
     [has_DOI |-> TRUE, doi_is_str |-> TRUE, DOI |-> <<"A">>],
     [has_DOI |-> TRUE, doi_is_str |-> TRUE, DOI |-> <<"a", "A">>],
     [has_DOI |-> TRUE, doi_is_str |-> FALSE, DOI |-> <<>>]}

PubTitles == {<<"a">>, <<"a", "a">>}

\* CrossRef items; id is the position in the input list
PublicationLists ==
    UNION {{[k \in 1..n |-> [id |-> k, has_DOI |-> f[k][1].has_DOI,
                             doi_is_str |-> f[k][1].doi_is_str,
                             DOI |-> f[k][1].DOI, title |-> f[k][2]]]
               : f \in [1..n -> DoiFields \X PubTitles]}
           : n \in 0..MaxLen}

InitDedup ==
    /\ InitNoRun
    /\ pc = "idle"
    /\ pmids = <<>>
    /\ j = 0
    /\ attempt = 0
    /\ retry_attempts = DEFAULT_RETRY_ATTEMPTS
    /\ unique_components = <<>>
    /\ reprocessed = <<>>
    /\ unique_publications = <<>>
    /\ \/ components \in ComponentLists /\ pubs = <<>> /\ dpc = "input"
       \/ pubs \in PublicationLists /\ components = <<>> /\ dpc = "dois_input"

Dedup ==
    /\ dpc = "input"
    /\ unique_components' = remove_duplicate_papers(components)
    /\ dpc' = "output"
    /\ UNCHANGED <<configVars, rowVars, ctlVars, resultVars, logVars, components,
                   reprocessed, pubs, unique_publications,
                   processVars, runVars, dateVars, freqVars, extVars>>

\* remove_duplicate_papers applied to its own output
DedupAgain ==
    /\ dpc = "output"
    /\ reprocessed' = remove_duplicate_papers(unique_components)
    /\ dpc' = "again"
    /\ UNCHANGED <<configVars, rowVars, ctlVars, resultVars, logVars, components,
                   unique_components, pubs, unique_publications,
                   processVars, runVars, dateVars, freqVars, extVars>>

\* unique_publications = remove_duplicate_dois(all_publications), or the
\* AttributeError of .lower() on a DOI that is no string
DedupDois ==
    /\ dpc = "dois_input"
    /\ IF DoisRaise(pubs)
       THEN dpc' = "dois_raised" /\ UNCHANGED unique_publications
       ELSE /\ unique_publications' = remove_duplicate_dois(pubs)
            /\ dpc' = "dois_output"
    /\ UNCHANGED <<configVars, rowVars, ctlVars, resultVars, logVars, components,
                   unique_components, reprocessed, pubs,
                   processVars, runVars, dateVars, freqVars, extVars>>

NextDedup == Dedup \/ DedupAgain \/ DedupDois

SpecDedup == InitDedup /\ [][NextDedup]_vars


\* ------------------------------------------------------------------------
\* lookup_crossref alone: the loop over the ORCIDs of the tracked authors.
\* searched lists <<"orcid", orcid, answer>> for every query made.
\* ------------------------------------------------------------------------
InitCrossref ==
    /\ email = "user@lab.org"
    /\ topics = <<1>>
    /\ journals = <<1>>
    /\ authors \in UNION {AuthorRows(n) : n \in 1..(MaxAuthors + 1)}
    /\ search_mode = "authors"
    /\ InitRow
    /\ pc = "crossref_get"
    /\ i = 1
    /\ pmids = <<>>
    /\ j = 0
    /\ attempt = 0
    /\ retry_attempts = DEFAULT_RETRY_ATTEMPTS
    /\ InitResults
    /\ InitLog
    /\ InitDedupIdle
    /\ InitProcessIdle
    /\ InitRunsIdle
    /\ InitDateIdle
    /\ InitFreqIdle
    /\ InitExtIdle

\* one pass of the loop: sleep, query, extend; an exception of the query
\* leaves all_publications as it was and the loop goes on
CrossrefQuery ==
    /\ pc = "crossref_get"
    /\ i < Len(orcids)
    /\ \E r \in CrossrefResponses :
        /\ all_publications' =
               Extend(all_publications, search_by_orcid(orcids[i], r))
        /\ searched' = Append(searched, <<"orcid", orcids[i], r>>)
    /\ crossref_events' =
           crossref_events
           \o (IF i > 1 THEN <<Sleep(RATE_LIMIT_DELAY)>> ELSE <<>>)
           \o <<[e |-> "works", d |-> 0, r |-> "-"]>>
    /\ requests' = requests \cup {"crossref"}
    /\ i' = i + 1
    /\ UNCHANGED <<configVars, rowVars, pc, pmids, j, attempt, retry_attempts,
                   keyword_papers, author_papers, keyword_freq, crossref_papers,
                   fetch_events, fetch_ret, Entrez_email, raised, search_failed,
                   ids_returned, fetch_failures, fetch_log, dedupVars,
                   processVars, runVars, dateVars, freqVars, extVars>>

\* the last pass, then unique_publications = remove_duplicate_dois(...) and
\* the return, or the AttributeError of the deduplication
CrossrefLast ==
    /\ pc = "crossref_get"
    /\ i = Len(orcids)
    /\ \E r \in CrossrefResponses :
        LET all == Extend(all_publications, search_by_orcid(orcids[i], r))
        IN /\ all_publications' = all
           /\ searched' = Append(searched, <<"orcid", orcids[i], r>>)
           /\ IF DoisRaise(all)
              THEN /\ raised' =
                          raised \cup {<<"lookup_crossref", "AttributeError">>}
                   /\ crossref_papers' = <<>>
                   /\ pc' = "crossref_raised"
              ELSE /\ crossref_papers' = remove_duplicate_dois(all)
                   /\ pc' = "crossref_returned"
                   /\ UNCHANGED raised
    /\ crossref_events' =
           crossref_events
           \o (IF i > 1 THEN <<Sleep(RATE_LIMIT_DELAY)>> ELSE <<>>)
           \o <<[e |-> "works", d |-> 0, r |-> "-"]>>
    /\ requests' = requests \cup {"crossref"}
    /\ i' = 0
    /\ UNCHANGED <<configVars, rowVars, pmids, j, attempt, retry_attempts,
                   keyword_papers, author_papers, keyword_freq,
                   fetch_events, fetch_ret, Entrez_email, search_failed,
                   ids_returned, fetch_failures, fetch_log, dedupVars,
                   processVars, runVars, dateVars, freqVars, extVars>>

NextCrossref == CrossrefQuery \/ CrossrefLast

SpecCrossref == InitCrossref /\ [][NextCrossref]_vars

\* ------------------------------------------------------------------------
\* Several runs in one process, their steps interleaved.  Each run builds
\* its PubMedClient, sends its PubMed requests, builds its CrossRefClient
\* and sends its CrossRef requests.  Entrez.email is an attribute of the
\* Bio.Entrez module, one per process; the requests.Session is an attribute
\* of the CrossRefClient instance, one per run.
\* ------------------------------------------------------------------------
Runs == 1..MaxRuns

\* config_dict["email"] of the run: the user's address, one per user
RunEmail(r) == <<"a@lab.org", "b@lab.org", "c@lab.org", "d@lab.org">>[r]

InitRuns ==
    /\ email = ""
    /\ topics = <<1>>
    /\ journals = <<1>>
    /\ authors = <<>>
    /\ search_mode = "both"
    /\ InitRow
    /\ i = 0
    /\ InitResults
    /\ InitLog
    /\ InitDedupIdle
    /\ InitProcessIdle
    /\ pc = "idle"
    /\ pmids = <<>>
    /\ j = 0
    /\ attempt = 0
    /\ retry_attempts = DEFAULT_RETRY_ATTEMPTS
    /\ InitDateIdle
    /\ InitFreqIdle
    /\ InitExtIdle
    /\ runs = [r \in Runs |-> [pc |-> "start", email |-> RunEmail(r),
                               session_email |-> "", calls |-> 0]]
    /\ sent = {}

RunsFrame ==
    UNCHANGED <<configVars, rowVars, ctlVars, resultVars, fetch_events,
                fetch_ret, crossref_events, requests, raised, search_failed,
                ids_returned, fetch_failures, searched, fetch_log, dedupVars,
                processVars, dateVars, freqVars, extVars>>

\* client = PubMedClient(email=email): Entrez.email = email
RunPubMedClient(r) ==
    /\ runs[r].pc = "start"
    /\ Entrez_email' = runs[r].email
    /\ runs' = [runs EXCEPT ![r].pc = "pubmed"]
    /\ UNCHANGED sent
    /\ RunsFrame

\* Entrez.esearch / Entrez.efetch: the request carries Entrez.email as it
\* is when the call is made
RunPubMedRequest(r) ==
    /\ runs[r].pc = "pubmed"
    /\ runs[r].calls < MaxCalls
    /\ sent' = sent \cup {[run |-> r, source |-> "pubmed", email |-> Entrez_email]}
    /\ runs' = [runs EXCEPT ![r].calls = @ + 1]
    /\ UNCHANGED Entrez_email
    /\ RunsFrame

\* client = CrossRefClient(email=email): the session and its User-Agent
\* belong to the instance
RunCrossRefClient(r) ==
    /\ runs[r].pc = "pubmed"
    /\ runs' = [runs EXCEPT ![r].pc = "crossref",
                            ![r].session_email = runs[r].email,
                            ![r].calls = 0]
    /\ UNCHANGED <<Entrez_email, sent>>
    /\ RunsFrame

\* self.session.get(...): the request carries the header of the session
RunCrossRefRequest(r) ==
    /\ runs[r].pc = "crossref"
    /\ runs[r].calls < MaxCalls
    /\ sent' = sent \cup {[run |-> r, source |-> "crossref",
                           email |-> runs[r].session_email]}
    /\ runs' = [runs EXCEPT ![r].calls = @ + 1]
    /\ UNCHANGED Entrez_email
    /\ RunsFrame

RunReturn(r) ==
    /\ runs[r].pc = "crossref"
    /\ runs' = [runs EXCEPT ![r].pc = "returned"]
    /\ UNCHANGED <<Entrez_email, sent>>
    /\ RunsFrame

NextRuns ==
    \E r \in Runs :
        \/ RunPubMedClient(r)
        \/ RunPubMedRequest(r)
        \/ RunCrossRefClient(r)
        \/ RunCrossRefRequest(r)
        \/ RunReturn(r)

SpecRuns == InitRuns /\ [][NextRuns]_vars

\* ------------------------------------------------------------------------
\* parse_api_date alone, on every raw value and source tag of the bounds
\* ------------------------------------------------------------------------
InitDate ==
    /\ email = ""
    /\ topics = <<1>>
    /\ journals = <<1>>
    /\ authors = <<>>
    /\ search_mode = "both"
    /\ InitRow
    /\ pc = "idle"
    /\ i = 0
    /\ pmids = <<>>
    /\ j = 0
    /\ attempt = 0
    /\ retry_attempts = DEFAULT_RETRY_ATTEMPTS
    /\ InitResults
    /\ InitLog
    /\ InitDedupIdle
    /\ InitProcessIdle
    /\ runs = <<>>
    /\ sent = {}
    /\ InitFreqIdle
    /\ InitExtIdle
    /\ date_input \in DateValues
    /\ date_tag \in SourceTags
    /\ date_result = <<>>
    /\ date_pc = "call"

ParseApiDate ==
    /\ date_pc = "call"
    /\ date_result' = parse_api_date(date_input, date_tag)
    /\ date_pc' = "parsed"
    /\ UNCHANGED <<configVars, rowVars, ctlVars, resultVars, logVars, dedupVars,
                   processVars, runs, sent, date_input, date_tag, freqVars, extVars>>

NextDate == ParseApiDate

SpecDate == InitDate /\ [][NextDate]_vars

\* ------------------------------------------------------------------------
\* The two request loops with their sleeps: fetch_paper_details over a list
\* of PMIDs, or lookup_crossref over a list of ORCIDs
\* ------------------------------------------------------------------------
InitDelays == InitFetch \/ InitCrossref

NextDelays == NextFetch \/ NextCrossref

SpecDelays == InitDelays /\ [][NextDelays]_vars

\* ------------------------------------------------------------------------
\* The date range of a run: calculate_date_range of the command line tool
\* and calculate_date_range_from_frequency of the web service
\* ------------------------------------------------------------------------
InitFrequency ==
    /\ email = ""
    /\ topics = <<1>>
    /\ journals = <<1>>
    /\ authors = <<>>
    /\ search_mode = "both"
    /\ InitRow
    /\ pc = "idle"
    /\ i = 0
    /\ pmids = <<>>
    /\ j = 0
    /\ attempt = 0
    /\ retry_attempts = DEFAULT_RETRY_ATTEMPTS
    /\ InitResults
    /\ InitLog
    /\ InitDedupIdle
    /\ InitProcessIdle
    /\ InitRunsIdle
    /\ InitDateIdle
    /\ InitExtIdle
    /\ freq_now \in Nows
    /\ freq_result = [raises |-> "-", start |-> <<>>, end |-> <<>>]
    /\ \/ freq_pc = "cli" /\ freq_input \in FrequencyInputs
       \/ freq_pc = "web" /\ freq_input \in SearchFrequencies

FrequencyFrame ==
    UNCHANGED <<configVars, rowVars, ctlVars, resultVars, logVars, dedupVars,
                processVars, runVars, dateVars, freq_input, freq_now,
                extVars>>

CalculateDateRange ==
    /\ freq_pc = "cli"
    /\ freq_result' =
           calculate_date_range(
               FrequencyString(freq_input.n, freq_input.blanks, freq_input.unit),
               freq_now)
    /\ freq_pc' = "cli_returned"
    /\ FrequencyFrame

CalculateDateRangeFromFrequency ==
    /\ freq_pc = "web"
    /\ freq_result' = calculate_date_range_from_frequency(freq_input, freq_now)
    /\ freq_pc' = "web_returned"
    /\ FrequencyFrame

NextFrequency == CalculateDateRange \/ CalculateDateRangeFromFrequency

SpecFrequency == InitFrequency /\ [][NextFrequency]_vars

\* ------------------------------------------------------------------------
\* One call of a field extractor of extract_crossref_paper_info or
\* extract_pubmed_paper_info
\* ------------------------------------------------------------------------
InitExtract ==
    /\ email = ""
    /\ topics = <<1>>
    /\ journals = <<1>>
    /\ authors = <<>>
    /\ search_mode = "both"
    /\ InitRow
    /\ pc = "idle"
    /\ i = 0
    /\ pmids = <<>>
    /\ j = 0
    /\ attempt = 0
    /\ retry_attempts = DEFAULT_RETRY_ATTEMPTS
    /\ InitResults
    /\ InitLog
    /\ InitDedupIdle
    /\ InitProcessIdle
    /\ InitRunsIdle
    /\ InitDateIdle
    /\ InitFreqIdle
    /\ ext_result = <<>>
    /\ ext_pc = "call"
    /\ \/ /\ ext_fn \in {"extract_crossref_title", "extract_pubmed_title"}
          /\ ext_input \in TitleValues
       \/ /\ ext_fn = "extract_pubmed_link"
          /\ ext_input \in ELocationValues

ExtractFrame ==
    UNCHANGED <<configVars, rowVars, ctlVars, resultVars, logVars, dedupVars,
                processVars, runVars, dateVars, freqVars, ext_fn, ext_input>>

ExtractCrossrefTitle ==
    /\ ext_pc = "call"
    /\ ext_fn = "extract_crossref_title"
    /\ ext_result' = extract_crossref_title(ext_input)
    /\ ext_pc' = "returned"
    /\ ExtractFrame

ExtractPubmedTitle ==
    /\ ext_pc = "call"
    /\ ext_fn = "extract_pubmed_title"
    /\ ext_result' = extract_pubmed_title(ext_input)
    /\ ext_pc' = "returned"
    /\ ExtractFrame

ExtractPubmedLink ==
    /\ ext_pc = "call"
    /\ ext_fn = "extract_pubmed_link"
    /\ ext_result' = extract_pubmed_link(ext_input)
    /\ ext_pc' = "returned"
    /\ ExtractFrame

NextExtract == ExtractCrossrefTitle \/ ExtractPubmedTitle \/ ExtractPubmedLink

SpecExtract == InitExtract /\ [][NextExtract]_vars

\* ------------------------------------------------------------------------
\* From raw records to components: the last statement of lookup_crossref
\* and process_papers statement by statement, as run_user_search runs them.
\* source_log lists the writes of the "Source" key of the components.
\* ------------------------------------------------------------------------
\* articles of an efetch answer: without MedlineCitation.Article, or with
\* it, ArticleTitle absent, empty or present, Journal a mapping or not
ArticleShapes ==
    {[pmid |-> 0, has_Article |-> FALSE, has_ArticleTitle |-> FALSE,
      ArticleTitle |-> <<>>, journal_is_mapping |-> TRUE]}
    \cup {[pmid |-> 0, has_Article |-> TRUE, has_ArticleTitle |-> t[1],
           ArticleTitle |-> t[2], journal_is_mapping |-> m]
             : t \in {<<FALSE, <<>>>>, <<TRUE, <<>>>>, <<TRUE, <<"a">>>>,
                      <<TRUE, <<" ", "A">>>>},
               m \in BOOLEAN}

\* CrossRef items: DOI absent, present in either letter case, or no string;
\* title absent, blank or present
ItemShapes ==
    {[orcid |-> 0, has_DOI |-> d[1], doi_is_str |-> TRUE, DOI |-> d[2],
      has_title |-> t[1], title |-> t[2]]
        : d \in {<<FALSE, <<>>>>, <<TRUE, <<"a">>>>, <<TRUE, <<"A">>>>},
          t \in {<<FALSE, <<>>>>, <<TRUE, <<" ">>>>, <<TRUE, <<"a">>>>,
                 <<TRUE, <<"a", " ">>>>}}
    \cup {[orcid |-> 0, has_DOI |-> TRUE, doi_is_str |-> FALSE, DOI |-> <<>>,
           has_title |-> FALSE, title |-> <<>>]}

\* n raw PubMed records numbered from base + 1, as the client returns them
RawPapers(n, base, source) ==
    {[k \in 1..n |-> [pmid |-> base + k, Source |-> source, search_key |-> 1,
                      PubmedArticle |-> <<[f[k] EXCEPT !.pmid = base + k]>>]]
        : f \in [1..n -> ArticleShapes]}

RawItems(n, base) ==
    {[k \in 1..n |-> [f[k] EXCEPT !.orcid = base + k]] : f \in [1..n -> ItemShapes]}

ExtractorWrites(comps) ==
    [k \in 1..Len(comps) |-> [by |-> "extractor", id |-> comps[k].id,
                              value |-> comps[k].Source]]

AggregatorWrites(comps, source) ==
    [k \in 1..Len(comps) |-> [by |-> "aggregator", id |-> comps[k].id,
                              value |-> source]]

InitProcess ==
    /\ email = "user@lab.org"
    /\ topics = <<1>>
    /\ journals = <<1>>
    /\ authors = <<>>
    /\ search_mode = "both"
    /\ InitRow
    /\ pc = "idle"
    /\ i = 0
    /\ pmids = <<>>
    /\ j = 0
    /\ attempt = 0
    /\ retry_attempts = DEFAULT_RETRY_ATTEMPTS
    /\ InitLog
    /\ InitDedupIdle
    /\ \E a, b, c \in 0..MaxRaw :
          /\ a + b + c <= MaxRaw
          /\ keyword_papers \in RawPapers(a, 0, "keyword")
          /\ author_papers \in RawPapers(b, 10, "pubmed_author")
          /\ all_publications \in RawItems(c, 20)
    /\ keyword_freq = EmptyDict
    /\ crossref_papers = <<>>
    /\ InitRunsIdle
    /\ InitDateIdle
    /\ InitFreqIdle
    /\ InitExtIdle
    /\ ppc = "lookup_crossref"
    /\ components_keyword = <<>>
    /\ components_pubmed_author = <<>>
    /\ components_crossref = <<>>
    /\ components_orcid = <<>>
    /\ source_log = <<>>

\* the variables process_papers never touches
ProcessFrame ==
    UNCHANGED <<configVars, rowVars, ctlVars, keyword_papers, author_papers,
                keyword_freq, all_publications, logVars, dedupVars, runVars, dateVars, freqVars, extVars>>

\* unique_publications = remove_duplicate_dois(all_publications); if it
\* raises, run_user_search keeps crossref_papers = []
PDois ==
    /\ ppc = "lookup_crossref"
    /\ crossref_papers' = IF DoisRaise(all_publications) THEN <<>>
                          ELSE remove_duplicate_dois(all_publications)
    /\ ppc' = "extract_keyword"
    /\ UNCHANGED <<components_keyword, components_pubmed_author,
                   components_crossref, components_orcid, source_log>>
    /\ ProcessFrame

\* components_keyword = process_pubmed_papers(keyword_papers)
PExtractKeyword ==
    /\ ppc = "extract_keyword"
    /\ IF ExtractRaises(keyword_papers)
       THEN ppc' = "raised" /\ UNCHANGED <<components_keyword, source_log>>
       ELSE /\ components_keyword' = process_pubmed_papers(keyword_papers)
            /\ source_log' = source_log \o ExtractorWrites(components_keyword')
            /\ ppc' = "tag_keyword"
    /\ UNCHANGED <<crossref_papers, components_pubmed_author,
                   components_crossref, components_orcid>>
    /\ ProcessFrame

\* for component in components_keyword: component["Source"] = "keyword"
PTagKeyword ==
    /\ ppc = "tag_keyword"
    /\ components_keyword' = Tag(components_keyword, "keyword")
    /\ source_log' = source_log \o AggregatorWrites(components_keyword, "keyword")
    /\ ppc' = "extract_author"
    /\ UNCHANGED <<crossref_papers, components_pubmed_author,
                   components_crossref, components_orcid>>
    /\ ProcessFrame

PExtractAuthor ==
    /\ ppc = "extract_author"
    /\ IF ExtractRaises(author_papers)
       THEN ppc' = "raised" /\ UNCHANGED <<components_pubmed_author, source_log>>
       ELSE /\ components_pubmed_author' = process_pubmed_papers(author_papers)
            /\ source_log' =
                   source_log \o ExtractorWrites(components_pubmed_author')
            /\ ppc' = "tag_author"
    /\ UNCHANGED <<crossref_papers, components_keyword, components_crossref,
                   components_orcid>>
    /\ ProcessFrame

PTagAuthor ==
    /\ ppc = "tag_author"
    /\ components_pubmed_author' = Tag(components_pubmed_author, "pubmed_author")
    /\ source_log' =
           source_log \o AggregatorWrites(components_pubmed_author, "pubmed_author")
    /\ ppc' = "extract_crossref"
    /\ UNCHANGED <<crossref_papers, components_keyword, components_crossref,
                   components_orcid>>
    /\ ProcessFrame

PExtractCrossref ==
    /\ ppc = "extract_crossref"
    /\ components_crossref' = process_crossref_papers(crossref_papers)
    /\ source_log' = source_log \o ExtractorWrites(components_crossref')
    /\ ppc' = "tag_crossref"
    /\ UNCHANGED <<crossref_papers, components_keyword,
                   components_pubmed_author, components_orcid>>
    /\ ProcessFrame

PTagCrossref ==
    /\ ppc = "tag_crossref"
    /\ components_crossref' = Tag(components_crossref, "crossref")
    /\ source_log' = source_log \o AggregatorWrites(components_crossref, "crossref")
    /\ ppc' = "dedup"
    /\ UNCHANGED <<crossref_papers, components_keyword,
                   components_pubmed_author, components_orcid>>
    /\ ProcessFrame

\* components_orcid = components_pubmed_author + components_crossref, then
\* remove_duplicate_papers on each of the two groups
PDedup ==
    /\ ppc = "dedup"
    /\ components_keyword' = remove_duplicate_papers(components_keyword)
    /\ components_orcid' =
           remove_duplicate_papers(components_pubmed_author \o components_crossref)
    /\ ppc' = "done"
    /\ UNCHANGED <<crossref_papers, components_pubmed_author,
                   components_crossref, source_log>>
    /\ ProcessFrame

NextProcess ==
    \/ PDois
    \/ PExtractKeyword
    \/ PTagKeyword
    \/ PExtractAuthor
    \/ PTagAuthor
    \/ PExtractCrossref
    \/ PTagCrossref
    \/ PDedup

SpecProcess == InitProcess /\ [][NextProcess]_vars


\* ------------------------------------------------------------------------
\* Properties
\* ------------------------------------------------------------------------
Range(s) == {s[k] : k \in 1..Len(s)}

Terminal == {"completed", "failed"}

\* the raw PubMed records a batch holds for one search key
PapersOf(raw, key) == SelectSeq(raw, LAMBDA p : p.search_key = key)

PmidsOf(raw) == [k \in 1..Len(raw) |-> raw[k].pmid]

\* detail fetches of a keyword that returned no record
Failed(kw, kind) ==
    IF <<kw, kind>> \in DOMAIN fetch_failures THEN fetch_failures[<<kw, kind>>]
    ELSE 0

Failures(kw) == Failed(kw, "transient") + Failed(kw, "other")

\* lookup_pubmed was entered and has returned to run_user_search
LookupReturned ==
    /\ Entrez_email # ""
    /\ pc \in {"crossref_gate", "crossref_get", "process", "commit", "returned"}

\* the sub-searches lookup_pubmed owes its configuration, in order
ExpectedSearches ==
    (IF KeywordBranch THEN [k \in 1..Len(topics) |-> <<"keyword", topics[k]>>]
     ELSE <<>>)
    \o (IF AuthorBranch
        THEN LET named == SelectSeq(named_authors, LAMBDA a : a.name # 0)
             IN [k \in 1..Len(named) |-> <<"author", named[k].name>>]
        ELSE <<>>)

\* C1: the status of a run only moves from its creation to running and from
\* running to completed or failed; once it is completed or failed the status
\* never changes again, and no step of the search and no upstream request is
\* made for that run any more.
C1_StatusLifecycle ==
    [][/\ status' # status =>
              <<status, status'>> \in {<<"absent", "running">>,
                                       <<"pending", "running">>,
                                       <<"running", "completed">>,
                                       <<"running", "failed">>}
       /\ status \in Terminal =>
              /\ status' = status
              /\ pc' \in {"commit", "returned"}
              /\ requests' = requests]_vars

\* a run that made upstream requests, failed, and was returned as failed
C1_Witness ==
    /\ pc = "returned"
    /\ status = "failed"
    /\ requests # {}
    /\ error_message

\* C2: the frequency of every searched keyword is the number of IDs its ID
\* search returned, whatever the detail fetches did; once the keyword's
\* fetches are over the batch holds, for that keyword, one paper per ID
\* minus the fetches that returned no record.
C2_FrequencyCountsIds ==
    \A kw \in DOMAIN keyword_freq :
        /\ keyword_freq[kw] = ids_returned[kw]
        /\ ~(pc = "kw_efetch" /\ topics[i] = kw) =>
               Len(PapersOf(keyword_papers, kw)) = ids_returned[kw] - Failures(kw)

\* 3 IDs, the fetch of ID 2 failed on an answer that is not 429/500:
\* 2 papers (IDs 1 and 3) and a frequency of 3
C2_Witness ==
    /\ pc = "returned"
    /\ 1 \in DOMAIN keyword_freq
    /\ ids_returned[1] = 3
    /\ Failed(1, "other") = 1
    /\ Failed(1, "transient") = 0
    /\ PmidsOf(PapersOf(keyword_papers, 1)) = <<1, 3>>
    /\ keyword_freq[1] = 3

\* C3: a keyword or author whose ID search failed has no paper in the batch
\* (and a keyword a frequency of 0), the failure raises nothing out of
\* lookup_pubmed, and when lookup_pubmed has returned every keyword and then
\* every named author of the configuration was searched, in order.
C3_SubSearchFailureContained ==
    /\ \A f \in search_failed :
          /\ f[1] = "keyword" =>
                 /\ keyword_freq[f[2]] = 0
                 /\ PapersOf(keyword_papers, f[2]) = <<>>
          /\ f[1] = "author" => PapersOf(author_papers, f[2]) = <<>>
    /\ <<"lookup_pubmed", "Exception">> \notin raised
    /\ LookupReturned => searched = ExpectedSearches

\* the search of keyword 1 failed, keyword 2 was searched after it and has
\* papers, and the run completed
C3_Witness ==
    /\ pc = "returned"
    /\ status = "completed"
    /\ <<"keyword", 1>> \in search_failed
    /\ searched = <<<<"keyword", 1>>, <<"keyword", 2>>>>
    /\ PapersOf(keyword_papers, 2) # <<>>
    /\ keyword_freq[1] = 0

\* C4: once lookup_pubmed has raised for a missing email, no upstream
\* request of any search path is made in that run and the run does not end
\* completed.
C4_MissingEmailAbortsRun ==
    <<"lookup_pubmed", "ValueError">> \in raised =>
        /\ requests = {}
        /\ status # "completed"


\* the efetch calls among the first p events of the fetch in hand
CallsUpTo(p) == Cardinality({q \in 1..p : fetch_events[q].e = "efetch"})

C6_NotRetried ==
    retry_attempts = DEFAULT_RETRY_ATTEMPTS =>
        \A k \in 1..Len(Answers(fetch_events)) :
            Answers(fetch_events)[k] = "http404" =>
                (k = Len(Answers(fetch_events)) /\ fetch_ret = "none")

\* C6: an HTTP error other than 429/500 is retried like any HTTP error: while
\* attempts remain the fetch goes on after it, and a fetch that ends on an
\* HTTP error has made all retry_attempts calls; the ID of a fetch that
\* returned no record is absent from the batch, the ID of one that returned
\* a record is in it, and every ID of the list is fetched, in order,
\* whatever the fetches before it returned.
C6_RetriedThenSkipped ==
    /\ LET ans == Answers(fetch_events)
       IN (ans # <<>> /\ ans[Len(ans)] = "http404" /\ Len(ans) < retry_attempts)
              => fetch_ret = "pending"
    /\ \A k \in 1..Len(fetch_log) :
          LET e == fetch_log[k]
          IN /\ e.pmid = pmids[k]
             /\ (e.ret = "none" /\ e.last \in HTTPErrors)
                    => e.calls = retry_attempts
             /\ e.ret = "none" => e.pmid \notin Range(PmidsOf(keyword_papers))
             /\ e.ret = "paper" => e.pmid \in Range(PmidsOf(keyword_papers))
    /\ pc = "fetch_done" => Len(fetch_log) = Len(pmids)
    /\ pc = "fetch_loop" => Len(fetch_log) = j - 1

\* default attempts, 3 IDs: the fetch of ID 2 ends on a 404 after its second
\* call; ID 3 is fetched after it and IDs 1 and 3 are in the batch
C6_Witness ==
    /\ pc = "fetch_done"
    /\ retry_attempts = DEFAULT_RETRY_ATTEMPTS
    /\ Len(fetch_log) = 3
    /\ fetch_log[2] = [pmid |-> 2, ret |-> "none", calls |-> 2,
                       last |-> "http404"]
    /\ fetch_log[3].ret = "paper"
    /\ PmidsOf(keyword_papers) = <<1, 3>>

\* C7: with mode both and no topics no PubMed request is made and the
\* keyword list, the author list and the keyword frequencies stay empty; if
\* in addition there are no ORCIDs, no upstream request at all is made and
\* the CrossRef list stays empty.
C7_EmptyConfigNoRequests ==
    (search_mode = "both" /\ topics = <<>>) =>
        /\ requests \cap {"esearch", "efetch"} = {}
        /\ keyword_papers = <<>>
        /\ author_papers = <<>>
        /\ keyword_freq = EmptyDict
        /\ orcids = <<>> => (requests = {} /\ crossref_papers = <<>>)

\* the run of an empty configuration in mode both, returned
C7_Witness ==
    /\ pc = "returned"
    /\ search_mode = "both"
    /\ topics = <<>>
    /\ orcids = <<>>
    /\ requests = {}
    /\ status = "completed"
    /\ papers = <<>>

PubMedPathRaised == \E x \in raised : x[1] = "lookup_pubmed"

CrossrefPathRaised == \E x \in raised : x[1] = "lookup_crossref"

\* C8: in a returned run where one source path raised and the other ran
\* without raising, the run is completed and every paper the other path
\* returned is among the run's papers; a failed run made no upstream request.
C8_PartialFailureStillCompletes ==
    /\ (pc = "returned" /\ PubMedPathRaised /\ CrossrefCond /\ ~CrossrefPathRaised)
           => /\ status = "completed"
              /\ \A p \in Range(crossref_papers) :
                     \E q \in Range(papers) : q.Source = "crossref" /\ q.id = p.orcid
    /\ (pc = "returned" /\ CrossrefPathRaised /\ LookupReturned /\ ~PubMedPathRaised)
           => /\ status = "completed"
              /\ \A p \in Range(keyword_papers) :
                     \E q \in Range(papers) : q.Source = "keyword" /\ q.id = p.pmid
    /\ status = "failed" => requests = {}

\* C9: a run that entered running reaches completed or failed, and the only
\* exception raised in it is the ValueError of lookup_pubmed for a missing
\* email.
C9_TerminatesRaisingOnlyFatal ==
    /\ (status = "running") ~> (status \in Terminal)
    /\ [](\A x \in raised : x = <<"lookup_pubmed", "ValueError">>)

\* C10: of the records whose normalized title (trimmed, lower-cased) is not
\* blank, the output of remove_duplicate_papers holds exactly those with no
\* earlier input record of the same normalized title, and no two records of
\* the output have the same normalized title.
C10_FirstOccurrenceWins ==
    dpc = "output" =>
        /\ \A a, b \in 1..Len(unique_components) :
               a # b => TitleKey(unique_components[a]) # TitleKey(unique_components[b])
        /\ \A k \in 1..Len(components) :
               TitleKey(components[k]) # <<>> =>
                   (components[k] \in Range(unique_components)
                        <=> \A m \in 1..(k - 1) :
                                TitleKey(components[m]) # TitleKey(components[k]))

\* three records, the third differing from the first in case and spaces
\* only: the first two are kept
C10_Witness ==
    /\ dpc = "output"
    /\ Len(components) = 3
    /\ components[1].Title = <<"a", " ">>
    /\ components[2].Title = <<"a", "a">>
    /\ components[3].Title = <<" ", "A">>
    /\ \A k \in 1..3 : components[k].has_Title
    /\ unique_components = <<components[1], components[2]>>


\* a is b with some elements left out, the others in place and unchanged
RECURSIVE IsSubsequence(_, _)
IsSubsequence(a, b) ==
    IF a = <<>> THEN TRUE
    ELSE IF b = <<>> THEN FALSE
    ELSE IF Head(a) = Head(b) THEN IsSubsequence(Tail(a), Tail(b))
    ELSE IsSubsequence(a, Tail(b))

\* C11: every record of the input whose title is blank (no title, empty or
\* spaces only) is in the output of remove_duplicate_papers.
C11_BlankTitlesKept ==
    dpc \in {"output", "again"} =>
        \A k \in 1..Len(components) :
            TitleKey(components[k]) = <<>> =>
                components[k] \in Range(unique_components)

\* C12: remove_duplicate_papers applied to its own output returns that
\* output: the same records in the same order.
C12_Idempotent ==
    dpc = "again" => reprocessed = unique_components

\* a list of three records of which the first pass removed one, passed
\* through a second time
C12_Witness ==
    /\ dpc = "again"
    /\ Len(components) = 3
    /\ TitleKey(components[1]) = TitleKey(components[2])
    /\ TitleKey(components[3]) \notin {<<>>, TitleKey(components[1])}
    /\ unique_components = <<components[1], components[3]>>
    /\ reprocessed = unique_components

\* C13: the output of remove_duplicate_papers and the output of
\* remove_duplicate_dois are subsequences of their input: records of the
\* input, unchanged, in their input order.
C13_OnlyRemoves ==
    /\ dpc \in {"output", "again"} => IsSubsequence(unique_components, components)
    /\ dpc = "dois_output" => IsSubsequence(unique_publications, pubs)

\* three items with DOIs, the second a duplicate of the first in another
\* letter case: the first and the third come out, in that order, unchanged
C13_Witness ==
    /\ dpc = "dois_output"
    /\ Len(pubs) = 3
    /\ pubs[1].DOI = <<"A">>
    /\ pubs[2].DOI = <<"a">>
    /\ pubs[3].DOI = <<"a", "A">>
    /\ unique_publications = <<pubs[1], pubs[3]>>

\* the DOI of an item in lower case, empty if it has none
LowerDoi(pub) ==
    IF pub.has_DOI THEN [k \in 1..Len(pub.DOI) |-> LowerChar(pub.DOI[k])] ELSE <<>>

\* C14: when remove_duplicate_dois returns, an item with a non-empty DOI is
\* in the output exactly if no earlier item has the same DOI up to letter
\* case, whatever the titles, and every item with no DOI (no key, or an
\* empty string) is in the output.
C14_DoiKeyLowerCased ==
    dpc = "dois_output" =>
        \A k \in 1..Len(pubs) :
            /\ LowerDoi(pubs[k]) # <<>> =>
                   (pubs[k] \in Range(unique_publications)
                        <=> \A m \in 1..(k - 1) :
                                LowerDoi(pubs[m]) # LowerDoi(pubs[k]))
            /\ LowerDoi(pubs[k]) = <<>> => pubs[k] \in Range(unique_publications)

\* the same DOI in two letter cases under different titles, then two items
\* without DOI: the first and the two without DOI are retained
C14_Witness ==
    /\ dpc = "dois_output"
    /\ Len(pubs) = 3
    /\ pubs[1].DOI = <<"a">> /\ pubs[2].DOI = <<"A">>
    /\ pubs[1].title # pubs[2].title
    /\ ~pubs[3].has_DOI
    /\ unique_publications = <<pubs[1], pubs[3]>>

\* the ids of the components of a list
IdsOf(comps) == {comps[k].id : k \in 1..Len(comps)}

\* the CrossRef items that carry neither a title nor a DOI
UnkeyedItems(items) ==
    {items[k].orcid : k \in {n \in 1..Len(items) :
                                ~items[n].has_title /\ ~items[n].has_DOI}}

\* the extracted PubMed articles that carry no title (they never carry a DOI)
UnkeyedArticles(raw) ==
    {ArticlesOf(raw)[k].pmid : k \in {n \in 1..Len(ArticlesOf(raw)) :
                                         ~ArticlesOf(raw)[n].has_ArticleTitle}}

\* C15: when process_papers has returned, every input record with neither a
\* title nor a DOI has its own entry in the output: the keyword records in
\* components_keyword, the author and CrossRef records in components_orcid,
\* however many such records the batch holds.
C15_UnkeyedRecordsKept ==
    ppc = "done" =>
        /\ UnkeyedArticles(keyword_papers) \subseteq IdsOf(components_keyword)
        /\ UnkeyedArticles(author_papers) \subseteq IdsOf(components_orcid)
        /\ UnkeyedItems(all_publications) \subseteq IdsOf(components_orcid)

\* the writes of the "Source" key of the component with this id, in order
WritesOf(id) == SelectSeq(source_log, LAMBDA e : e.id = id)

LoggedIds == {source_log[k].id : k \in 1..Len(source_log)}

\* the tag process_papers gives to the group the record came in
GroupTag(id) ==
    IF \E k \in 1..Len(ArticlesOf(keyword_papers)) :
           ArticlesOf(keyword_papers)[k].pmid = id
    THEN "keyword"
    ELSE IF \E k \in 1..Len(ArticlesOf(author_papers)) :
                ArticlesOf(author_papers)[k].pmid = id
    THEN "pubmed_author"
    ELSE "crossref"

\* the components process_papers holds at this point, in every list
HeldComponents ==
    Range(components_keyword) \cup Range(components_pubmed_author)
        \cup Range(components_crossref) \cup Range(components_orcid)

\* C16 as stated: the provenance tag of a component is written exactly
\* once, and the write is the aggregator's, never the extractor's.
C16_SetOnceByAggregator ==
    \A id \in LoggedIds :
        /\ Len(WritesOf(id)) = 1
        /\ WritesOf(id)[1].by = "aggregator"

\* C16 amended: the extractor writes a first value ("pubmed" or "crossref")
\* when it builds the component, process_papers overwrites it once with the
\* tag of the group, after the extraction of the group and before any
\* deduplication; from then on nothing writes the key, and every component
\* that process_papers returns carries the aggregator's tag.
C16_TagStates ==
    /\ \A id \in LoggedIds :
          LET w == WritesOf(id)
          IN /\ Len(w) <= 2
             /\ w[1].by = "extractor"
             /\ w[1].value \in {"pubmed", "crossref"}
             /\ Len(w) = 2 => w[2].by = "aggregator" /\ w[2].value = GroupTag(id)
             /\ ppc \in {"dedup", "done"} => Len(w) = 2
    /\ \A c \in HeldComponents :
          /\ c.id \in LoggedIds
          /\ c.Source = WritesOf(c.id)[Len(WritesOf(c.id))].value

C16_TagSteps ==
    ppc \in {"dedup", "done"} =>
        /\ source_log' = source_log
        /\ \A c \in Range(components_keyword') \cup Range(components_orcid') :
              c.Source = GroupTag(c.id)

C16_TagOverwrittenOnceBeforeDedup == []C16_TagStates /\ [][C16_TagSteps]_vars

\* process_papers has returned a keyword component and a CrossRef component
C16_Witness ==
    /\ ppc = "done"
    /\ \E c \in Range(components_keyword) : c.Source = "keyword"
    /\ \E c \in Range(components_orcid) : c.Source = "crossref"
    /\ \A id \in LoggedIds : Len(WritesOf(id)) = 2

\* the answers that are an exception of the query: the transport exception
\* search_by_orcid catches, and any other that lookup_crossref catches
CrossrefFailures == {"request_exception", "error"}

\* what the logged queries should have gathered: the items of every ORCID
\* whose query answered some, in the order of the queries
RECURSIVE Gathered(_)
Gathered(log) ==
    IF log = <<>> THEN <<>>
    ELSE (IF Head(log)[3] = "items" THEN <<Item(Head(log)[2])>> ELSE <<>>)
         \o Gathered(Tail(log))

\* C17: in lookup_crossref an exception of the query of one ORCID gives no
\* publication for that ORCID and takes none away from the others: the
\* publications gathered are exactly the items of the ORCIDs whose query
\* answered; no exception of a query leaves lookup_crossref; when it ends
\* every ORCID of the list was queried, in order; and when it returns,
\* every item gathered is returned, itself or, for a DOI seen before, the
\* earlier item with that DOI.
C17_TransportFailureContained ==
    /\ all_publications = Gathered(searched)
    /\ \A k \in 1..Len(searched) :
          searched[k][3] \in CrossrefFailures =>
              \A n \in 1..Len(all_publications) :
                  all_publications[n].orcid # searched[k][2]
    /\ <<"lookup_crossref", "Exception">> \notin raised
    /\ pc = "crossref_raised" => DoisRaise(Gathered(searched))
    /\ pc \in {"crossref_returned", "crossref_raised"} =>
          [k \in 1..Len(searched) |-> searched[k][2]] = orcids
    /\ pc = "crossref_returned" =>
          \A n \in 1..Len(Gathered(searched)) :
              LET item == Gathered(searched)[n]
              IN \E c \in Range(crossref_papers) :
                     \/ c = item
                     \/ LowerDoi(c) # <<>> /\ LowerDoi(c) = LowerDoi(item)

\* the query of the first ORCID failed with a transport exception, the
\* second ORCID was queried after it and its item is returned
C17_Witness ==
    /\ pc = "crossref_returned"
    /\ Len(searched) >= 2
    /\ searched[1][3] = "request_exception"
    /\ searched[2][3] = "items"
    /\ Item(searched[2][2]) \in Range(crossref_papers)

\* C18: under every interleaving of the steps of the runs, every request a
\* run sent, to PubMed or to CrossRef, carries the contact email of that
\* run.
C18_RequestsCarryOwnEmail ==
    \A m \in sent : m.email = runs[m.run].email

\* the zero-padded shape YYYY/MM/DD
IsDateShape(s) ==
    /\ Len(s) = 10
    /\ s[5] = "/"
    /\ s[8] = "/"
    /\ \A k \in {1, 2, 3, 4, 6, 7, 9, 10} : s[k] \in Digit

\* a PubMed mapping that has a year and no day
DictLacksDay(d) == d.kind = "dict" /\ d.Year.has /\ d.Year.v # <<>> /\ ~d.Day.has

\* a CrossRef date-parts value of one or two integers: a year, or a year
\* and a month of the calendar
PartsLackDay(d) ==
    /\ d.kind = "date_parts"
    /\ d.outer # <<>>
    /\ Len(d.outer[1]) \in {1, 2}
    /\ \A k \in 1..Len(d.outer[1]) : d.outer[1][k].int
    /\ Len(d.outer[1]) = 2 => d.outer[1][2].v \in 1..12

\* the raw value, given with the tag of its source, has a year and no day
LacksDay ==
    \/ date_tag = "crossref" /\ PartsLackDay(date_input)
    \/ date_tag = "pubmed" /\ DictLacksDay(date_input)
    \/ /\ date_tag = "pubmed"
       /\ date_input.kind = "list"
       /\ date_input.items # <<>>
       /\ DictLacksDay(date_input.items[1])

\* the raw value has no month either
LacksMonth ==
    \/ date_input.kind = "date_parts" /\ Len(date_input.outer[1]) = 1
    \/ date_input.kind = "dict" /\ ~date_input.Month.has
    \/ date_input.kind = "list" /\ ~date_input.items[1].Month.has

\* C19: for a raw value that has a year and lacks the day (CrossRef
\* date-parts with its tag, PubMed mapping or list of one with its tag),
\* parse_api_date returns a string of the shape YYYY/MM/DD whose day is 01,
\* and whose month is 01 too when the month is missing.
C19_MissingPartsFilled ==
    (date_pc = "parsed" /\ LacksDay) =>
        /\ IsDateShape(date_result)
        /\ SubSeq(date_result, 9, 10) = <<"0", "1">>
        /\ LacksMonth => SubSeq(date_result, 6, 7) = <<"0", "1">>

\* an ISO-hyphenated date YYYY-MM or YYYY-MM-DD
IsoString(s) ==
    /\ Len(s) \in 6..10
    /\ \A k \in 1..4 : s[k] \in Digit
    /\ s[5] = "-"
    /\ s[Len(s)] \in Digit
    /\ \A k \in 6..Len(s) : s[k] \in Digit \cup {"-"}

\* the raw values of the documented forms
WellFormed(d) ==
    \/ d.kind = "str" /\ IsoString(d.s)
    \/ /\ d.kind = "date_parts"
       /\ d.outer # <<>>
       /\ d.outer[1] # <<>>
       /\ \A k \in 1..Len(d.outer[1]) : d.outer[1][k].int
    \/ d.kind = "dict" /\ d.Year.has /\ d.Year.v # <<>>
    \/ /\ d.kind = "list"
       /\ d.items # <<>>
       /\ d.items[1].Year.has
       /\ d.items[1].Year.v # <<>>

Malformed(d) == ~Falsy(d) /\ ~WellFormed(d)

\* C20: for a malformed raw value whose string form holds a run of four
\* digits, parse_api_date returns the first such run followed by /01/01,
\* whatever the source tag.
C20_MalformedYearExtracted ==
    (/\ date_pc = "parsed"
     /\ Malformed(date_input)
     /\ YearMatch(StrForm(date_input)) # 0) =>
        date_result =
            SubSeq(StrForm(date_input), YearMatch(StrForm(date_input)),
                   YearMatch(StrForm(date_input)) + 3)
            \o <<"/", "0", "1", "/", "0", "1">>

\* date a is strictly before date b, both <<year, month, day>>
Precedes(a, b) ==
    \/ a[1] < b[1]
    \/ a[1] = b[1] /\ a[2] < b[2]
    \/ a[1] = b[1] /\ a[2] = b[2] /\ a[3] < b[3]

\* the days the claim counts for a unit, read from its first letter
ClaimedUnitDays(unit) ==
    IF unit[1] \in {"d", "D"} THEN 1
    ELSE IF unit[1] \in {"w", "W"} THEN 7
    ELSE IF unit[1] \in {"m", "M"} THEN 30
    ELSE 365

\* the frequency string of the call is "<n> <unit>" with a supported unit
ValidFrequency ==
    freq_pc = "cli_returned" /\ freq_input.unit \in Units

\* the duration of "<m> <unit>", for the unit and blanks of the call made
DurationOf(m) ==
    parse_lookup_frequency(
        FrequencyString(m, freq_input.blanks, freq_input.unit))

C22_ExtractorsTotal ==
    /\ ppc # "raised"
    /\ ppc = "tag_keyword" =>
           Len(components_keyword) = Len(ArticlesOf(keyword_papers))
    /\ ppc = "tag_author" =>
           Len(components_pubmed_author) = Len(ArticlesOf(author_papers))
    /\ ppc = "tag_crossref" => Len(components_crossref) = Len(crossref_papers)

\* the raw title is missing or empty: the key is absent, or its value is an
\* empty list or an empty string
TitleMissingOrEmpty ==
    ext_input \in {AbsentKey, ListVal(<<>>), StrVal(<<>>)}

TitleExtracted ==
    /\ ext_pc = "returned"
    /\ ext_fn \in {"extract_crossref_title", "extract_pubmed_title"}

\* C23: for every raw record whose title is missing or empty, either
\* extractor returns exactly "No title available".
C23_MissingTitleIsSentinel ==
    TitleExtracted /\ TitleMissingOrEmpty => ext_result = StrVal(SentinelTitle)

\* the case kept by both extractors: no "title" / "ArticleTitle" key
C23_AbsentKeyIsSentinel ==
    TitleExtracted /\ ext_input = AbsentKey => ext_result = StrVal(SentinelTitle)

\* an identifier the entry carries
IdOf(loc) == IF HasValue(loc) THEN loc.value ELSE loc.text

DoiTyped(loc) == loc.EIdType = "doi"

\* C24: a DOI-typed entry at any position of the list gives the link,
\* whatever precedes it; with no DOI-typed entry the first entry is used;
\* a bare string gives its DOI link; the sentinel is returned only when
\* there is no identifier at all.
C24_LinkPrecedence ==
    ext_pc = "returned" /\ ext_fn = "extract_pubmed_link" =>
        IF ext_input.kind = "list"
        THEN LET locs == ext_input.items
             IN IF \E k \in 1..Len(locs) : DoiTyped(locs[k])
                THEN LET k == CHOOSE n \in 1..Len(locs) :
                                  /\ DoiTyped(locs[n])
                                  /\ \A m \in 1..(n - 1) : ~DoiTyped(locs[m])
                     IN ext_result = DoiLink(IdOf(locs[k]))
                ELSE IF locs # <<>>
                THEN ext_result \in {<<IdOf(locs[1])>>, DoiLink(IdOf(locs[1]))}
                ELSE ext_result = NoLink
        ELSE IF ext_input.kind = "single" /\ ext_input.entry.cls = "str"
                /\ ext_input.entry.text # ""
        THEN ext_result = DoiLink(ext_input.entry.text)
        ELSE ext_input \in {AbsentKey, NoneVal} => ext_result = NoLink

\* the entry closes the loop of the list: it is DOI-typed or a plain string
ClosesLoop(loc) == DoiTyped(loc) \/ loc.cls = "str"

\* C24 amended: in a list the first entry that is DOI-typed or a plain
\* string gives the DOI link, so a DOI-typed entry wins over every typed
\* entry before it but not over a plain string before it; with no such
\* entry the first entry is returned as it is, without the DOI prefix; a
\* value that is no list gives the DOI link of its text or .value when it
\* is a string or is truthy; the sentinel is returned for an absent key,
\* None, an empty list and a falsy value that is no string.
C24_LinkFirstDoiOrString ==
    ext_pc = "returned" /\ ext_fn = "extract_pubmed_link" =>
        IF ext_input.kind = "list"
        THEN LET locs == ext_input.items
             IN IF \E k \in 1..Len(locs) : ClosesLoop(locs[k])
                THEN LET k == CHOOSE n \in 1..Len(locs) :
                                  /\ ClosesLoop(locs[n])
                                  /\ \A m \in 1..(n - 1) : ~ClosesLoop(locs[m])
                     IN ext_result = DoiLink(IdOf(locs[k]))
                ELSE IF locs # <<>>
                THEN ext_result = <<IdOf(locs[1])>>
                ELSE ext_result = NoLink
        ELSE IF ext_input.kind = "single"
        THEN IF ext_input.entry.cls = "int" /\ ext_input.entry.text = "0"
             THEN ext_result = NoLink
             ELSE ext_result = DoiLink(IdOf(ext_input.entry))
        ELSE ext_result = NoLink

\* a DOI-typed entry after an entry of another type gave the link
C24_Witness ==
    /\ ext_pc = "returned"
    /\ ext_fn = "extract_pubmed_link"
    /\ ext_input.kind = "list"
    /\ Len(ext_input.items) = 2
    /\ ext_input.items[1].EIdType = "pii"
    /\ ext_input.items[2].cls = "StringElement"
    /\ DoiTyped(ext_input.items[2])
    /\ ext_result = DoiLink(ext_input.items[2].text)

\* both gates of run_user_search are behind
PastGates == pc \in {"process", "commit", "returned"}

\* lookup_pubmed searched a keyword, or searched an author name
KeywordQueries == \E k \in 1..Len(searched) : searched[k][1] = "keyword"
AuthorNameQueries == \E k \in 1..Len(searched) : searched[k][1] = "author"

\* lookup_pubmed was called: it searched, or raised on the missing email
KeywordPathInvoked ==
    KeywordQueries \/ <<"lookup_pubmed", "ValueError">> \in raised

\* C25: the keyword path is invoked exactly when the mode is keywords or
\* both and keywords and journals are configured, the author path exactly
\* when the mode is authors or both and authors are configured, in
\* run_user_search as in search_publications on a validated configuration;
\* in mode keywords no author query is issued and the author results are
\* empty, in mode authors no keyword query is issued and the keyword result
\* is empty.
C25_ModeGatesPaths ==
    /\ PastGates =>
          /\ KeywordPathInvoked <=>
                 /\ search_mode \in {"keywords", "both"}
                 /\ topics # <<>>
                 /\ journals # <<>>
          /\ "crossref" \in requests <=>
                 search_mode \in {"authors", "both"} /\ authors # <<>>
    /\ ValidConfig =>
          LET cli == search_publications(search_mode)
          IN /\ cli.lookup_pubmed <=> search_mode \in {"keywords", "both"}
             /\ cli.author_branch <=>
                    search_mode \in {"authors", "both"} /\ authors # <<>>
             /\ cli.lookup_crossref = cli.author_branch
    /\ search_mode = "keywords" =>
          /\ ~AuthorNameQueries
          /\ "crossref" \notin requests
          /\ author_papers = <<>>
          /\ crossref_papers = <<>>
    /\ search_mode = "authors" =>
          /\ ~KeywordQueries
          /\ keyword_papers = <<>>
          /\ keyword_freq = EmptyDict

\* a run in mode both that took both paths
C25_Witness ==
    /\ pc = "returned"
    /\ search_mode = "both"
    /\ KeywordQueries
    /\ "crossref" \in requests
    /\ keyword_papers # <<>>
    /\ crossref_papers # <<>>

\* C30: the PubMed author-name search is issued only in mode both with a
\* keyword and a journal configured; in mode authors, or without keywords
\* or without journals, the authors are searched through CrossRef only:
\* no PubMed request is issued and no paper has the source pubmed_author.
C30_AuthorNameSearchGated ==
    /\ AuthorNameQueries =>
          search_mode = "both" /\ topics # <<>> /\ journals # <<>>
    /\ search_mode = "authors" \/ topics = <<>> \/ journals = <<>> =>
          /\ "esearch" \notin requests
          /\ "efetch" \notin requests
          /\ author_papers = <<>>
          /\ \A k \in 1..Len(papers) : papers[k].Source # "pubmed_author"
          /\ PastGates /\ search_mode # "keywords" /\ authors # <<>> =>
                 requests = {"crossref"}

\* named authors of a run in mode authors went to CrossRef and nowhere else
C30_Witness ==
    /\ pc = "returned"
    /\ search_mode = "authors"
    /\ topics # <<>>
    /\ journals # <<>>
    /\ \E k \in 1..Len(named_authors) : named_authors[k].name # 0
    /\ requests = {"crossref"}
    /\ papers # <<>>

\* C26: every efetch call of fetch_paper_details, first attempt or retry,
\* comes right after a sleep of API_DELAY, and every CrossRef query of
\* lookup_crossref but the first of the run comes right after a sleep of
\* RATE_LIMIT_DELAY.
C26_DelayBeforeRequest ==
    /\ \A k \in 1..Len(fetch_events) :
          fetch_events[k].e = "efetch" =>
              k > 1 /\ fetch_events[k - 1] = Sleep(API_DELAY)
    /\ \A k \in 1..Len(crossref_events) :
          crossref_events[k].e = "works" =>
              \/ k = 1
              \/ crossref_events[k - 1] = Sleep(RATE_LIMIT_DELAY)
    /\ crossref_events # <<>> => crossref_events[1].e = "works"

\* a detail fetch that failed once and was retried
C26_Witness ==
    /\ pc \in {"fetch_loop", "fetch_done"}
    /\ Len(fetch_events) = 5
    /\ fetch_events[2].e = "efetch"
    /\ fetch_events[2].r \in HTTPErrors
    /\ fetch_events[5] = Call("ok")
    /\ fetch_ret = "paper"

\* the last record of fetch_log: the fetch_paper_details call that just
\* returned
LastFetch == fetch_log[Len(fetch_log)]

\* C27: fetch_paper_details issues at most retry_attempts efetch calls for
\* one PMID; when it returns no record after an HTTP error it has made
\* exactly retry_attempts calls, all of them answered by an HTTP error; a
\* non-HTTP error ends it with no record at that call; and with
\* retry_attempts = 0 it issues no call and returns no record.
C27_FetchBounded ==
    /\ attempt <= retry_attempts
    /\ Len(Answers(fetch_events)) <= retry_attempts
    /\ \A k \in 1..Len(fetch_log) :
          LET f == fetch_log[k]
          IN /\ f.calls <= retry_attempts
             /\ f.ret \in {"paper", "none"}
             /\ f.ret = "paper" <=> f.last = "ok"
             /\ f.last \in HTTPErrors => f.ret = "none" /\ f.calls = retry_attempts
             /\ f.last = "-" <=> retry_attempts = 0
             /\ retry_attempts = 0 => f.calls = 0 /\ f.ret = "none"
    /\ fetch_log # <<>> /\ fetch_ret # "pending" =>
          LET answers == Answers(fetch_events)
          IN /\ Len(answers) = LastFetch.calls
             /\ \A n \in 1..(Len(answers) - 1) : answers[n] \in HTTPErrors

\* three HTTP errors in a row with retry_attempts = 3: no record
C27_Witness ==
    /\ retry_attempts = 3
    /\ fetch_log # <<>>
    /\ LastFetch.ret = "none"
    /\ LastFetch.calls = 3
    /\ LastFetch.last \in HTTPErrors
    /\ fetch_ret = "none"

\* the keyword components as extracted, before the deduplication
KeywordExtracted == process_pubmed_papers(keyword_papers)

\* comps holds a record of that source with that normalized title
HoldsTitle(comps, source, title) ==
    \E k \in 1..Len(comps) :
        comps[k].Source = source /\ TitleKey(comps[k]) = title

\* what C28 says, of every title or of the titles that are not blank, once
\* process_papers has returned
SeparateGroups(blank_too) ==
    ppc = "done" =>
        /\ \A a \in 1..Len(components_pubmed_author) :
           \A c \in 1..Len(components_crossref) :
              LET title == TitleKey(components_pubmed_author[a])
              IN /\ blank_too \/ title # <<>>
                 /\ TitleKey(components_crossref[c]) = title
                 =>
                    /\ HoldsTitle(components_orcid, "pubmed_author", title)
                    /\ \A o \in 1..Len(components_orcid) :
                          components_orcid[o].id # components_crossref[c].id
        /\ \A k \in 1..Len(KeywordExtracted) :
              LET title == TitleKey(KeywordExtracted[k])
              IN /\ blank_too \/ title # <<>>
                 /\ \E x \in 1..Len(components_pubmed_author \o components_crossref) :
                        TitleKey((components_pubmed_author \o components_crossref)[x])
                            = title
                 =>
                    /\ HoldsTitle(components_keyword, "keyword", title)
                    /\ ~HoldsTitle(components_orcid, "keyword", title)
        /\ \A o \in 1..Len(components_orcid) :
              components_orcid[o].Source \in {"pubmed_author", "crossref"}

\* C28: the two groups are deduplicated separately; when a PubMed-author
\* record and a CrossRef record carry the same normalized title the
\* PubMed-author record is kept and the CrossRef record removed, and a
\* keyword record with that title stays in the keyword group.
C28_GroupsDeduplicatedSeparately == SeparateGroups(TRUE)

\* the same for the titles that are not blank
C28_NonBlankGroupsSeparate == SeparateGroups(FALSE)

\* a PubMed-author record and a CrossRef record with one normalized title,
\* and a keyword record with it: the CrossRef record is gone
C28_SameTitleReached ==
    /\ ppc = "done"
    /\ Len(components_pubmed_author) = 1
    /\ Len(components_crossref) = 1
    /\ TitleKey(components_pubmed_author[1]) = <<"a">>
    /\ TitleKey(components_crossref[1]) = <<"a">>
    /\ Len(components_orcid) = 1
    /\ components_orcid[1].Source = "pubmed_author"

\* C29: the run record is consistent, at every commit and so when
\* run_user_search returns: completed_at is set exactly when the status is
\* completed or failed, error_message is set only when it is failed, and a
\* completed run has total_papers_found = keyword_papers_count +
\* author_papers_count = the number of Paper rows stored.
C29_RunRecordConsistent ==
    /\ completed_at <=> status \in {"completed", "failed"}
    /\ error_message => status = "failed"
    /\ status = "completed" =>
          /\ total_papers_found = keyword_papers_count + author_papers_count
          /\ total_papers_found = Len(papers)
    /\ pc = "returned" => status \in {"completed", "failed"}

\* a completed run that stored papers of both groups
C29_Witness ==
    /\ pc = "returned"
    /\ status = "completed"
    /\ completed_at
    /\ ~error_message
    /\ keyword_papers_count > 0
    /\ author_papers_count > 0
    /\ Len(papers) = keyword_papers_count + author_papers_count

\* a failed run: timestamp and message set, no paper stored
C29_FailedReached ==
    /\ pc = "returned"
    /\ status = "failed"
    /\ completed_at
    /\ error_message
    /\ papers = <<>>

=============================================================================
